---- MODULE Spec2Model ----
(***************************************************************************)
(* SacredFlow API: the Square webhook intake pipeline                      *)
(* (app/routes/square.py, app/core/square.py) and the Square catalog       *)
(* reconciliation service (app/services/square_catalog.py), as state       *)
(* machines over the persisted tables.                                     *)
(*                                                                         *)
(* Strings the code only compares are TLA+ strings.  Strings the code      *)
(* takes apart (str.upper, str.startswith, url + body) are sequences of    *)
(* one-character strings.  A JSON member that is missing is ABSENT, a JSON *)
(* null (Python None) is NULL.                                             *)
(***************************************************************************)
EXTENDS Integers, Sequences, FiniteSets, TLC

VARIABLES
    env,            \* process environment: Square credentials
    events,         \* table square_webhook_events, keyed by event_id
    payments,       \* table payments, keyed by internal id
    clock,          \* wall clock read by datetime.now(), one tick per request
    lastReq,        \* the webhook request handled last
    prevEvents,     \* square_webhook_events as that request found it
    prevPayments,   \* payments as that request found it
    lastResp,       \* the response to it
    firstResp,      \* event_id -> response of the delivery that stored it
    catalog,        \* table square_catalog_items, keyed by square_id
    products,       \* table products, keyed by id
    syncs,          \* number of sync() calls so far (also their clock)
    lastListing,    \* the Square response the last sync() received
    lastStats,      \* the CatalogSyncStats (or exception) of the last sync()
    prevCatalog,    \* square_catalog_items as the last sync() found it
    prevProducts,   \* products as the last sync() found it
    mapIn,          \* argument of the last _square_status_to_internal call
    mapOut,         \* its result
    verIn,          \* arguments of the last verify_square_signature call
    verOut,         \* its outcome
    rEvents,        \* square_webhook_events as committed, under concurrent requests
    rPayments,      \* payments as committed, under concurrent requests
    rSess,          \* the concurrent requests: position and session of each
    creates,        \* number of create_payment calls so far
    lastCreate,     \* the last create_payment call and its answer, if it was the last step
    sCatalog,       \* square_catalog_items as committed, under concurrent passes
    sProducts,      \* products as committed, under concurrent passes
    sPass           \* the concurrent sync() passes: position and session of each

webhookVars == <<events, payments, clock, lastReq, prevEvents, prevPayments,
                 lastResp, firstResp>>
catalogVars == <<catalog, products, syncs, lastListing, lastStats, prevCatalog,
                 prevProducts>>
mappingVars == <<mapIn, mapOut>>
verifyVars == <<verIn, verOut>>
raceVars == <<rEvents, rPayments, rSess>>
paymentVars == <<creates, lastCreate>>
syncRaceVars == <<sCatalog, sProducts, sPass>>
vars == <<env, events, payments, clock, lastReq, prevEvents, prevPayments, lastResp,
          firstResp, catalog, products, syncs, lastListing, lastStats, prevCatalog,
          prevProducts, mapIn, mapOut, verIn, verOut, rEvents, rPayments, rSess,
          creates, lastCreate, sCatalog, sProducts, sPass>>

\* ---------------------------------------------------------------- bounds
MaxDeliveries == 2      \* webhook requests per behaviour
MaxSyncs == 2           \* sync() calls per behaviour
MaxListing == 2         \* objects in one remote catalog listing
MaxInFlight == 2        \* webhook requests that overlap

\* ------------------------------------------------------------ JSON values
ABSENT == "<absent>"            \* key not in the dict
NULL == "<null>"                \* None
AbsentS == <<"<absent>">>       \* the same, for character sequences
NullS == <<"<null>">>
NullInt == 0 - 1                \* None where the column holds an integer

\* dict.get(key): a missing key reads as None
Get(v) == IF v = ABSENT THEN NULL ELSE v
GetS(v) == IF v = AbsentS THEN NullS ELSE v
\* dict.get(key, default)
GetD(v, d) == IF v = ABSENT THEN d ELSE v
GetDS(v, d) == IF v = AbsentS THEN d ELSE v
\* Python truthiness of an Optional[str]
Truthy(v) == v \notin {ABSENT, NULL, ""}
TruthyS(v) == v \notin {AbsentS, NullS, <<>>}

\* ------------------------------------------------------------- characters
LowerChars == <<"a", "b", "c", "d", "e", "f", "g", "h", "i", "j", "k", "l", "m",
                "n", "o", "p", "q", "r", "s", "t", "u", "v", "w", "x", "y", "z">>
UpperChars == <<"A", "B", "C", "D", "E", "F", "G", "H", "I", "J", "K", "L", "M",
                "N", "O", "P", "Q", "R", "S", "T", "U", "V", "W", "X", "Y", "Z">>

UpperChar(c) ==
    IF \E i \in 1..26 : LowerChars[i] = c
    THEN UpperChars[CHOOSE i \in 1..26 : LowerChars[i] = c]
    ELSE c

LowerChar(c) ==
    IF \E i \in 1..26 : UpperChars[i] = c
    THEN LowerChars[CHOOSE i \in 1..26 : UpperChars[i] = c]
    ELSE c

\* str.upper()
Upper(s) == [i \in 1..Len(s) |-> UpperChar(s[i])]

\* str.startswith(prefix)
StartsWith(s, prefix) ==
    /\ Len(s) >= Len(prefix)
    /\ \A i \in 1..Len(prefix) : s[i] = prefix[i]

\* ---------------------------------------------------------- Payment model
STATUS_PENDING == "pending"
STATUS_COMPLETED == "completed"
STATUS_FAILED == "failed"
STATUS_REFUNDED == "refunded"
PaymentStatuses == {STATUS_PENDING, STATUS_COMPLETED, STATUS_FAILED, STATUS_REFUNDED}

COMPLETED == <<"C", "O", "M", "P", "L", "E", "T", "E", "D">>
APPROVED == <<"A", "P", "P", "R", "O", "V", "E", "D">>
AUTHORIZED == <<"A", "U", "T", "H", "O", "R", "I", "Z", "E", "D">>
PENDING == <<"P", "E", "N", "D", "I", "N", "G">>
FAILED == <<"F", "A", "I", "L", "E", "D">>
CANCELED == <<"C", "A", "N", "C", "E", "L", "E", "D">>
CANCELED_BY_CUSTOMER == <<"C", "A", "N", "C", "E", "L", "E", "D", "_", "B", "Y", "_",
                          "C", "U", "S", "T", "O", "M", "E", "R">>
REFUNDED == <<"R", "E", "F", "U", "N", "D", "E", "D">>
BOGUS == <<"B", "O", "G", "U", "S">>

\* the dict literal `mapping`
MappingKeys == {COMPLETED, APPROVED, AUTHORIZED, PENDING, FAILED, CANCELED,
                CANCELED_BY_CUSTOMER, REFUNDED}

mapping(k) ==
    CASE k = COMPLETED -> STATUS_COMPLETED
      [] k \in {APPROVED, AUTHORIZED, PENDING} -> STATUS_PENDING
      [] k \in {FAILED, CANCELED, CANCELED_BY_CUSTOMER} -> STATUS_FAILED
      [] k = REFUNDED -> STATUS_REFUNDED

\* mutant: REFUNDED falls through to the default
SquareStatusToInternalNoRefund(status_value) ==
    LET normalized == Upper(IF TruthyS(status_value) THEN status_value ELSE <<>>)
    IN  IF normalized \in MappingKeys \ {REFUNDED} THEN mapping(normalized)
        ELSE STATUS_PENDING

\* _square_status_to_internal: (status_value or "").upper(), then
\* mapping.get(normalized, STATUS_PENDING)
SquareStatusToInternal(status_value) ==
    LET normalized == Upper(IF TruthyS(status_value) THEN status_value ELSE <<>>)
    IN  IF normalized \in MappingKeys THEN mapping(normalized) ELSE STATUS_PENDING


\* ------------------------------------------------- configuration (core/square.py)
EnvSet ==
    [SQUARE_SECRET_KEY : {"", "tok"}, SQUARE_WEBHOOK_SIGNATURE_KEY : {"", "k1"}]

\* _read_secret with no *_FILE variable set: the value itself (stripped)
ReadSecret(value) == value

\* get_square_runtime_config: raises SquareConfigurationError without an access
\* token; webhook_signature_key is `webhook_key or None`.  (The lru_cache keeps
\* only successful results; the environment of a process is fixed, so the
\* memoised value is the value computed here.)
GetSquareRuntimeConfig(e) ==
    LET access_token == ReadSecret(e.SQUARE_SECRET_KEY)
        webhook_key == ReadSecret(e.SQUARE_WEBHOOK_SIGNATURE_KEY)
    IN  IF access_token = ""
        THEN [raised |-> TRUE, webhook_signature_key |-> NULL]
        ELSE [raised |-> FALSE,
              webhook_signature_key |-> IF webhook_key = "" THEN NULL ELSE webhook_key]

\* ------------------------------------------------------ signature headers
\* base64(HMAC-SHA1(key, message)) is kept symbolic: two signatures are equal
\* exactly when key and message are.
Mac(key, message) == [kind |-> "mac", key |-> key, msg |-> message]
NoHeader == [kind |-> "none", key |-> "", msg |-> <<>>]      \* header not sent
EmptyHeader == [kind |-> "empty", key |-> "", msg |-> <<>>]  \* header sent, empty

\* `not provided_signature`
HeaderFalsy(h) == h.kind \in {"none", "empty"}

\* mutant: a configured secret with a wrong signature is let through
VerifySquareSignatureLax(e, raw_body, url, provided_signature) ==
    LET config == GetSquareRuntimeConfig(e)
    IN  IF config.raised THEN [raised |-> TRUE, valid |-> TRUE]
        ELSE [raised |-> FALSE, valid |-> TRUE]

\* mutant: the signed message is the body alone
VerifySquareSignatureBodyOnly(e, raw_body, url, provided_signature) ==
    LET config == GetSquareRuntimeConfig(e)
    IN  IF config.raised THEN [raised |-> TRUE, valid |-> TRUE]
        ELSE IF ~Truthy(config.webhook_signature_key)
        THEN [raised |-> FALSE, valid |-> TRUE]
        ELSE IF HeaderFalsy(provided_signature)
        THEN [raised |-> FALSE, valid |-> FALSE]
        ELSE [raised |-> FALSE,
              valid |-> Mac(config.webhook_signature_key, raw_body) = provided_signature]

\* verify_square_signature
VerifySquareSignature(e, raw_body, url, provided_signature) ==
    LET config == GetSquareRuntimeConfig(e)
    IN  IF config.raised THEN [raised |-> TRUE, valid |-> TRUE]
        ELSE IF ~Truthy(config.webhook_signature_key)
        THEN [raised |-> FALSE, valid |-> TRUE]
        ELSE IF HeaderFalsy(provided_signature)
        THEN [raised |-> FALSE, valid |-> FALSE]
        ELSE LET message == url \o raw_body
                 expected_signature == Mac(config.webhook_signature_key, message)
             IN  [raised |-> FALSE, valid |-> expected_signature = provided_signature]

\* -------------------------------------------------------- webhook payloads
T_PAYMENT_UPDATED == <<"p", "a", "y", "m", "e", "n", "t", ".", "u", "p", "d", "a", "t", "e", "d">>
T_PAYMENT_DOT == <<"p", "a", "y", "m", "e", "n", "t", ".">>
T_PAYMENT == <<"p", "a", "y", "m", "e", "n", "t">>
T_PAYMENT_CAP == <<"P", "a", "y", "m", "e", "n", "t", ".", "u", "p", "d", "a", "t", "e", "d">>
T_ORDER_CREATED == <<"o", "r", "d", "e", "r", ".", "c", "r", "e", "a", "t", "e", "d">>
T_UNKNOWN == <<"u", "n", "k", "n", "o", "w", "n">>
LC_COMPLETED == <<"c", "o", "m", "p", "l", "e", "t", "e", "d">>

\* a payment object {"id": .., "status": ..}
Pay(id, st) == [kind |-> "dict", id |-> id, status |-> st]
NoPay(k) == [kind |-> k, id |-> ABSENT, status |-> AbsentS]
\* data.object, possibly carrying a nested "payment"
Obj(id, st, payment) == [kind |-> "dict", id |-> id, status |-> st, payment |-> payment]
NoObj(k) == [kind |-> k, id |-> ABSENT, status |-> AbsentS, payment |-> NoPay("absent")]
\* data
Data(loc, obj) == [kind |-> "dict", location_id |-> loc, object |-> obj]
NoData(k) == [kind |-> k, location_id |-> ABSENT, object |-> NoObj("absent")]
\* the whole body
Payload(eid_snake, eid_camel, type, data) ==
    [event_id |-> eid_snake, eventId |-> eid_camel, type |-> type, data |-> data]

EVT1 == "evt_1"
EVT2 == "evt_2"
PAY1 == "sq_pay_1"      \* square_payment_id of a local Payment
PAYX == "sq_pay_x"      \* a Square payment id with no local Payment

NestedPay(id, st) == Data("L1", Obj(ABSENT, AbsentS, Pay(id, st)))

PayloadPool ==
    \* payment events for the local payment, one per provider status shape
    { Payload(EVT1, ABSENT, T_PAYMENT_UPDATED, NestedPay(PAY1, s)) :
        s \in {COMPLETED, LC_COMPLETED, FAILED, REFUNDED, BOGUS, NullS, AbsentS} }
    \* payment ids that match nothing
    \cup { Payload(EVT1, ABSENT, T_PAYMENT_UPDATED, NestedPay(i, COMPLETED)) :
        i \in {PAYX, ABSENT, ""} }
    \* the payment at data.object itself (no nested "payment", or an empty one)
    \cup { Payload(EVT1, ABSENT, T_PAYMENT_UPDATED, Data(ABSENT, Obj(PAY1, CANCELED, p))) :
        p \in {NoPay("absent"), NoPay("dict")} }
    \* event types
    \cup { Payload(EVT1, ABSENT, t, NestedPay(PAY1, COMPLETED)) :
        t \in {T_PAYMENT_DOT, T_PAYMENT, T_PAYMENT_CAP, T_ORDER_CREATED, AbsentS, NullS} }
    \* data / data.object missing or null
    \cup { Payload(EVT1, ABSENT, t, d) :
        t \in {T_PAYMENT_UPDATED, T_ORDER_CREATED},
        d \in {NoData("absent"), NoData("null"),
               Data(ABSENT, NoObj("absent")), Data(ABSENT, NoObj("null"))} }
    \* the event id under either key
    \cup { Payload(ABSENT, EVT1, T_PAYMENT_UPDATED, NestedPay(PAY1, FAILED)),
           Payload("", EVT1, T_ORDER_CREATED, NestedPay(PAY1, FAILED)),
           Payload(EVT2, EVT1, T_PAYMENT_UPDATED, NestedPay(PAY1, REFUNDED)),
           Payload(ABSENT, ABSENT, T_PAYMENT_UPDATED, NestedPay(PAY1, COMPLETED)),
           Payload(NULL, "", T_PAYMENT_UPDATED, NestedPay(PAY1, COMPLETED)) }
    \* a second event
    \cup { Payload(EVT2, ABSENT, T_PAYMENT_UPDATED, NestedPay(PAY1, FAILED)),
           Payload(EVT2, ABSENT, T_PAYMENT_UPDATED, NestedPay(PAYX, COMPLETED)),
           Payload(EVT2, ABSENT, T_ORDER_CREATED, NoData("null")) }

URL == <<"u">>
RAW == <<"b">>
\* "not_object": JSON that parses to something other than an object
BodyKinds == {"object", "bad_json", "bad_utf8", "not_object"}
GoodHeader == Mac("k1", URL \o RAW)
\* headers that a configured key "k1" must refuse: none, empty, another key,
\* another message
BadHeaders == {NoHeader, EmptyHeader, Mac("k2", URL \o RAW),
               Mac("k1", URL \o <<"x">> \o RAW)}
\* the payloads that are also sent with each of the bad headers
SignaturePool ==
    { Payload(EVT1, ABSENT, T_PAYMENT_UPDATED, NestedPay(PAY1, COMPLETED)),
      Payload(EVT1, ABSENT, T_PAYMENT_UPDATED, NestedPay(PAYX, COMPLETED)),
      Payload(EVT1, ABSENT, T_ORDER_CREATED, NestedPay(PAY1, COMPLETED)),
      Payload(EVT1, ABSENT, T_ORDER_CREATED, NoData("null")),
      Payload(EVT1, ABSENT, NullS, NestedPay(PAY1, COMPLETED)),
      Payload(EVT2, ABSENT, T_PAYMENT_UPDATED, NestedPay(PAY1, FAILED)) }

NoPayload == Payload(ABSENT, ABSENT, AbsentS, NoData("absent"))

Requests ==
    [bodyKind : {"object"}, payload : PayloadPool, url : {URL}, raw : {RAW},
     sig : {GoodHeader}]
    \cup [bodyKind : {"object"}, payload : SignaturePool, url : {URL}, raw : {RAW},
          sig : BadHeaders]
    \cup [bodyKind : BodyKinds \ {"object"}, payload : {NoPayload},
          url : {URL}, raw : {RAW}, sig : {NoHeader}]

\* ------------------------------------------------------------ the tables
\* extra_data of a Payment: the keys the webhook handler reads and writes
ExtraData(history, response) == [webhook_history |-> history, square_response |-> response]

InitPayments ==
    [i \in {1, 2} |->
        IF i = 1
        THEN [square_payment_id |-> PAY1, amount |-> 500, status |-> STATUS_PENDING,
              extra_data |-> ExtraData(<<>>, NoPay("null"))]
        ELSE [square_payment_id |-> NULL, amount |-> 700, status |-> STATUS_COMPLETED,
              extra_data |-> ExtraData(<<>>, NoPay("null"))]]

EventStatuses == {"received", "processed", "ignored", "rejected", "failed"}
TerminalStatuses == {"processed", "ignored", "rejected", "failed"}

NoneTypeGet == "'NoneType' object has no attribute 'get'"
NoneTypeStartswith == "'NoneType' object has no attribute 'startswith'"
NoTime == 0

\* ------------------------------------------------ _apply_payment_update
\* mutant: the status is written without going through the mapping table
ApplyPaymentUpdateRaw(payment_payload, pays, now) ==
    LET square_payment_id == Get(payment_payload.id)
        found == {i \in DOMAIN pays : pays[i].square_payment_id = square_payment_id}
    IN  IF ~Truthy(square_payment_id) \/ found = {}
        THEN [status |-> "ignored", pays |-> pays]
        ELSE LET i == CHOOSE j \in found : TRUE
             IN  [status |-> "processed",
                  pays |-> [pays EXCEPT
                      ![i].status = STATUS_COMPLETED,
                      ![i].extra_data = ExtraData(
                          Append(pays[i].extra_data.webhook_history,
                                 [received_at |-> now, payload |-> payment_payload]),
                          payment_payload)]]

\* Lines 59-66 as the unit of work stores them.  `dict(payment.extra_data)` is
\* a shallow copy: when the loaded dict already has "webhook_history" the
\* append lands in the list both dicts share, so the loaded value (the one the
\* flush compares with, extra_data being a plain JSONB column) and the
\* assigned one differ only in "square_response"; when they compare equal no
\* UPDATE of extra_data is sent and the stored value stays as loaded.  An
\* empty history stands for a dict without the key (setdefault creates the
\* list in the copy only).
StoredExtraData(loaded, history, payment_payload) ==
    IF loaded.webhook_history = <<>> \/ loaded.square_response # payment_payload
    THEN ExtraData(history, payment_payload)
    ELSE loaded

\* mutant: an event for an unknown payment id creates the Payment
ApplyPaymentUpdateUpsert(payment_payload, pays, now) ==
    LET square_payment_id == Get(payment_payload.id)
        found == {i \in DOMAIN pays : pays[i].square_payment_id = square_payment_id}
        status == SquareStatusToInternal(GetS(payment_payload.status))
        entry == [received_at |-> now, payload |-> payment_payload]
    IN  IF ~Truthy(square_payment_id)
        THEN [status |-> "ignored", pays |-> pays]
        ELSE IF found = {}
        THEN LET id == Cardinality(DOMAIN pays) + 1
             IN  [status |-> "processed",
                  pays |-> [i \in DOMAIN pays \cup {id} |->
                              IF i = id
                              THEN [square_payment_id |-> square_payment_id, amount |-> 0,
                                    status |-> status,
                                    extra_data |-> ExtraData(<<entry>>, payment_payload)]
                              ELSE pays[i]]]
        ELSE LET i == CHOOSE j \in found : TRUE
             IN  [status |-> "processed",
                  pays |-> [pays EXCEPT
                      ![i].status = status,
                      ![i].extra_data = StoredExtraData(
                          pays[i].extra_data,
                          Append(pays[i].extra_data.webhook_history, entry),
                          payment_payload)]]

\* mutant: a Payment that left pending keeps its status
ApplyPaymentUpdateGuarded(payment_payload, pays, now) ==
    LET square_payment_id == Get(payment_payload.id)
        found == {i \in DOMAIN pays : pays[i].square_payment_id = square_payment_id}
    IN  IF ~Truthy(square_payment_id)
        THEN [status |-> "ignored", pays |-> pays]
        ELSE IF found = {}
        THEN [status |-> "ignored", pays |-> pays]
        ELSE LET i == CHOOSE j \in found : TRUE
             IN  [status |-> "processed",
                  pays |-> [pays EXCEPT
                      ![i].status = IF @ = STATUS_PENDING
                                    THEN SquareStatusToInternal(GetS(payment_payload.status))
                                    ELSE @,
                      ![i].extra_data = StoredExtraData(
                          pays[i].extra_data,
                          Append(pays[i].extra_data.webhook_history,
                                 [received_at |-> now, payload |-> payment_payload]),
                          payment_payload)]]

\* Looks the Payment up by square_payment_id; when found sets its status from
\* the mapping, appends to extra_data.webhook_history and overwrites
\* extra_data.square_response.
ApplyPaymentUpdate(payment_payload, pays, now) ==
    LET square_payment_id == Get(payment_payload.id)
        found == {i \in DOMAIN pays : pays[i].square_payment_id = square_payment_id}
    IN  IF ~Truthy(square_payment_id)
        THEN [status |-> "ignored", pays |-> pays]
        ELSE IF found = {}
        THEN [status |-> "ignored", pays |-> pays]
        ELSE LET i == CHOOSE j \in found : TRUE
             IN  [status |-> "processed",
                  pays |-> [pays EXCEPT
                      ![i].status = SquareStatusToInternal(GetS(payment_payload.status)),
                      ![i].extra_data = StoredExtraData(
                          pays[i].extra_data,
                          Append(pays[i].extra_data.webhook_history,
                                 [received_at |-> now, payload |-> payment_payload]),
                          payment_payload)]]

\* ------------------------------------------------------- _dispatch_event
\* `resource.get("payment") or resource`: an absent, null or empty nested
\* payment is falsy
PaymentPayloadOf(resource) ==
    IF resource.payment.kind = "dict"
       /\ ~(resource.payment.id = ABSENT /\ resource.payment.status = AbsentS)
    THEN resource.payment
    ELSE Pay(resource.id, resource.status)

\* mutant: the handler had already set the status of the pending Payments when
\* it raised
RaisedDirty(reason, pays) ==
    [raised |-> TRUE, reason |-> reason, status |-> "failed",
     pays |-> [i \in DOMAIN pays |->
                 IF pays[i].status = STATUS_PENDING
                 THEN [pays[i] EXCEPT !.status = STATUS_FAILED]
                 ELSE pays[i]]]

Raised(reason, pays) ==
    [raised |-> TRUE, reason |-> reason, status |-> "failed", pays |-> pays]
Returned(r) ==
    [raised |-> FALSE, reason |-> NULL, status |-> r.status, pays |-> r.pays]

\* payload.get("data", {}) and data.get("object", {}) come first: a null data
\* (or data.object) raises AttributeError on the next .get, whatever the type
DispatchEvent(payload, pays, now) ==
    LET event_type == GetDS(payload.type, T_UNKNOWN)
    IN  IF payload.data.kind = "null" THEN Raised(NoneTypeGet, pays)
        ELSE IF event_type = NullS THEN Raised(NoneTypeStartswith, pays)
        ELSE IF StartsWith(event_type, T_PAYMENT_DOT)
        THEN IF payload.data.object.kind = "null" THEN Raised(NoneTypeGet, pays)
             ELSE Returned(ApplyPaymentUpdate(PaymentPayloadOf(payload.data.object), pays, now))
        ELSE Returned([status |-> "ignored", pays |-> pays])


\* ------------------------------------------------- handle_square_webhook
ErrorResp(code, detail) ==
    [code |-> code, status |-> detail, duplicate |-> FALSE, eventId |-> ABSENT,
     signatureVerified |-> FALSE, failureReason |-> NULL]
DuplicateResp(status) ==
    [code |-> 202, status |-> status, duplicate |-> TRUE, eventId |-> ABSENT,
     signatureVerified |-> FALSE, failureReason |-> NULL]
OkResp(status, event_id, signature_valid, failure_reason) ==
    [code |-> 202, status |-> status, duplicate |-> FALSE, eventId |-> event_id,
     signatureVerified |-> signature_valid, failureReason |-> failure_reason]
NoResp == ErrorResp(0, "none")
\* no create_payment call was the last step
NoCreate == [called |-> FALSE]

\* payload.get("event_id") or payload.get("eventId")
ExtractEventId(payload) ==
    IF Truthy(Get(payload.event_id)) THEN payload.event_id ELSE Get(payload.eventId)

\* mutant: the existence check finds nothing
LookupEventBlind(evs, event_id) == FALSE

\* select(SquareWebhookEvent).where(event_id == ...).scalar_one_or_none()
LookupEvent(evs, event_id) == event_id \in DOMAIN evs

\* mutant: a configuration error counts as a failed verification
SignatureValidStrict(e, req) ==
    LET v == VerifySquareSignature(e, req.raw, req.url, req.sig)
    IN  IF v.raised THEN FALSE ELSE v.valid

\* signature_valid (lines 101-105): True unless the verifier returns False;
\* a SquareConfigurationError is logged and leaves it True
SignatureValid(e, req) ==
    LET v == VerifySquareSignature(e, req.raw, req.url, req.sig)
    IN  IF v.raised THEN TRUE ELSE v.valid

\* (payload.get("data") or {}).get("location_id")
LocationIdOf(payload) ==
    IF payload.data.kind = "dict" THEN Get(payload.data.location_id) ELSE NULL

\* SquareWebhookEvent(..., status="received")
NewEventRecord(payload, signature_valid) ==
    [event_type |-> GetDS(payload.type, T_UNKNOWN),
     location_id |-> LocationIdOf(payload),
     signature_verified |-> signature_valid,
     payload |-> payload,
     status |-> "received",
     failure_reason |-> NULL,
     processed_at |-> NoTime]

\* the if/else around _dispatch_event: rejected without dispatch, or the
\* handler's outcome, or failed with str(exc)
Outcome(signature_valid, payload, pays, now) ==
    IF ~signature_valid
    THEN [dispatched |-> FALSE, processing_status |-> "rejected",
          failure_reason |-> "Signature verification failed", pays |-> pays]
    ELSE LET d == DispatchEvent(payload, pays, now)
         IN  [dispatched |-> TRUE, processing_status |-> d.status,
              failure_reason |-> d.reason, pays |-> d.pays]

\* mutant: the row is committed as it was inserted
FinishRecordUntouched(record, processing_status, failure_reason, now) == record

\* mutant: processed_at is stamped whatever the outcome
FinishRecordStamped(record, processing_status, failure_reason, now) ==
    [record EXCEPT
        !.status = processing_status,
        !.failure_reason = failure_reason,
        !.processed_at = now]

\* event_record.status / failure_reason / processed_at before the commit
FinishRecord(record, processing_status, failure_reason, now) ==
    [record EXCEPT
        !.status = processing_status,
        !.failure_reason = failure_reason,
        !.processed_at = IF processing_status \in {"processed", "ignored"}
                         THEN now ELSE NoTime]

\* session.commit(): event_type is NOT NULL and event_id is UNIQUE
CommitAccepts(evs, event_id, record) ==
    /\ record.event_type # NullS
    /\ event_id \notin DOMAIN evs

\* mutant: an id stored as rejected or ignored is handled again when it is
\* redelivered
HandleResultRetry(e, evs, pays, req, now) ==
    LET same(resp) == [events |-> evs, payments |-> pays, resp |-> resp, stored |-> FALSE,
                       dispatched |-> FALSE]
    IN  CASE req.bodyKind = "bad_json" -> same(ErrorResp(400, "Invalid JSON body"))
          [] req.bodyKind = "bad_utf8" -> same(ErrorResp(500, "UnicodeDecodeError"))
          [] req.bodyKind = "not_object" -> same(ErrorResp(500, "AttributeError"))
          [] OTHER ->
            LET payload == req.payload
                event_id == ExtractEventId(payload)
                signature_valid == SignatureValid(e, req)
            IN  IF ~Truthy(event_id) THEN same(ErrorResp(422, "Missing event_id"))
                ELSE IF LookupEvent(evs, event_id)
                        /\ evs[event_id].status \notin {"rejected", "ignored"}
                THEN same(DuplicateResp(evs[event_id].status))
                ELSE LET o == Outcome(signature_valid, payload, pays, now)
                         record == FinishRecord(NewEventRecord(payload, signature_valid),
                                                o.processing_status, o.failure_reason, now)
                     IN  IF record.event_type # NullS
                         THEN [events |-> [k \in DOMAIN evs \cup {event_id} |->
                                            IF k = event_id THEN record ELSE evs[k]],
                               payments |-> o.pays,
                               resp |-> OkResp(o.processing_status, event_id,
                                               signature_valid, o.failure_reason),
                               stored |-> TRUE,
                               dispatched |-> o.dispatched]
                         ELSE [same(ErrorResp(500, "IntegrityError")) EXCEPT
                                  !.dispatched = o.dispatched]

\* The whole request: the tables after it and the response.
HandleResult(e, evs, pays, req, now) ==
    LET same(resp) == [events |-> evs, payments |-> pays, resp |-> resp, stored |-> FALSE,
                       dispatched |-> FALSE]
    IN  CASE req.bodyKind = "bad_json" -> same(ErrorResp(400, "Invalid JSON body"))
          [] req.bodyKind = "bad_utf8" -> same(ErrorResp(500, "UnicodeDecodeError"))
          [] req.bodyKind = "not_object" -> same(ErrorResp(500, "AttributeError"))
          [] OTHER ->
            LET payload == req.payload
                event_id == ExtractEventId(payload)
                signature_valid == SignatureValid(e, req)
            IN  IF ~Truthy(event_id) THEN same(ErrorResp(422, "Missing event_id"))
                ELSE IF LookupEvent(evs, event_id)
                THEN same(DuplicateResp(evs[event_id].status))
                ELSE LET o == Outcome(signature_valid, payload, pays, now)
                         record == FinishRecord(NewEventRecord(payload, signature_valid),
                                                o.processing_status, o.failure_reason, now)
                     IN  IF CommitAccepts(evs, event_id, record)
                         THEN [events |-> [k \in DOMAIN evs \cup {event_id} |->
                                            IF k = event_id THEN record ELSE evs[k]],
                               payments |-> o.pays,
                               resp |-> OkResp(o.processing_status, event_id,
                                               signature_valid, o.failure_reason),
                               stored |-> TRUE,
                               dispatched |-> o.dispatched]
                         ELSE [same(ErrorResp(500, "IntegrityError")) EXCEPT
                                  !.dispatched = o.dispatched]

HandleSquareWebhook(req) ==
    /\ clock < MaxDeliveries
    /\ \E r \in {HandleResult(env, events, payments, req, clock + 1)} :
           /\ events' = r.events
           /\ payments' = r.payments
           /\ lastResp' = r.resp
           /\ firstResp' = IF r.stored
                           THEN [k \in DOMAIN firstResp \cup DOMAIN r.events |->
                                    IF k \in DOMAIN firstResp THEN firstResp[k] ELSE r.resp]
                           ELSE firstResp
           /\ lastReq' = [req |-> req, dispatched |-> r.dispatched]
    /\ prevEvents' = events
    /\ prevPayments' = payments
    /\ clock' = clock + 1
    /\ lastCreate' = NoCreate
    /\ UNCHANGED <<env, creates, catalogVars, mappingVars, verifyVars, raceVars,
                   syncRaceVars>>

Deliver == \E req \in Requests : HandleSquareWebhook(req)


\* ================================================== catalog reconciliation
NoProduct == 0
UNNAMED_ITEM == "Unnamed Item"
ITM1 == "ITM1"
ITM2 == "ITM2"

Variation(id, amount, currency) == [id |-> id, amount |-> amount, currency |-> currency]

\* one object of the list_catalog response; version NullInt: no "version" key
CatalogObject(type, id, name, variations, version, is_deleted) ==
    [type |-> type, id |-> id, name |-> name, description |-> ABSENT,
     variations |-> variations, version |-> version, is_deleted |-> is_deleted]

ObjectPool ==
    { CatalogObject("ITEM", ITM1, "Tea", <<Variation("VAR1", 500, "USD")>>, 1, FALSE),
      CatalogObject("ITEM", ITM1, "Tea", <<Variation("VAR2", 700, "USD"),
                                           Variation("VAR1", 500, "USD")>>, 2, FALSE),
      CatalogObject("ITEM", ITM1, "Tea", <<Variation("VAR1", 500, "USD")>>, 2, TRUE),
      CatalogObject("ITEM", ITM2, ABSENT, <<>>, NullInt, FALSE),
      CatalogObject("ITEM", ABSENT, "Ghost", <<>>, 1, FALSE),
      CatalogObject("ITEM_VARIATION", "VAR1", ABSENT, <<>>, 1, FALSE) }

RECURSIVE SeqsUpTo(_, _)
SeqsUpTo(S, n) ==
    IF n = 0 THEN {<<>>}
    ELSE LET shorter == SeqsUpTo(S, n - 1)
         IN  shorter \cup {Append(q, x) : q \in shorter, x \in S}

Listings == SeqsUpTo(ObjectPool, MaxListing)

\* what call_square("catalog.list_catalog", ...) can come back with
RemoteResults ==
    [kind : {"ok"}, objects : Listings, errors : {<<>>}]
    \cup [kind : {"error"}, objects : {<<>>}, errors : {<<>>, <<"UNAUTHORIZED">>}]
    \cup [kind : {"raise"}, objects : {<<>>}, errors : {<<>>}]

\* Product(...) built by _ensure_product_binding
NewProduct(record) ==
    [name |-> record.name,
     description |-> record.description,
     price_cents |-> IF record.price_cents = NullInt THEN 0 ELSE record.price_cents,
     currency |-> IF Truthy(record.currency) THEN record.currency ELSE "USD",
     square_catalog_object_id |-> record.square_id,
     square_catalog_variation_id |-> record.variation_id]

\* uq_products_square_object, checked by the flush that inserts the Product
ProductInsertAccepted(prods, product) ==
    \A p \in DOMAIN prods :
        prods[p].square_catalog_object_id # product.square_catalog_object_id

\* mutant: a Product is created whether or not the item is bound
EnsureProductBindingAlways(record, prods) ==
    LET id == Cardinality(DOMAIN prods) + 1
        product == NewProduct(record)
    IN  [failed |-> FALSE,
         record |-> [record EXCEPT !.product_id = id],
         prods |-> [p \in DOMAIN prods \cup {id} |->
                       IF p = id THEN product ELSE prods[p]]]

\* _ensure_product_binding: nothing when product_id is set; otherwise add a
\* Product, flush, and bind its id.  A flush that violates the unique
\* constraint raises IntegrityError.
EnsureProductBinding(record, prods) ==
    IF record.product_id # NoProduct
    THEN [failed |-> FALSE, record |-> record, prods |-> prods]
    ELSE LET id == Cardinality(DOMAIN prods) + 1
             product == NewProduct(record)
         IN  IF ~ProductInsertAccepted(prods, product)
             THEN [failed |-> TRUE, record |-> record, prods |-> prods]
             ELSE [failed |-> FALSE,
                   record |-> [record EXCEPT !.product_id = id],
                   prods |-> [p \in DOMAIN prods \cup {id} |->
                                 IF p = id THEN product ELSE prods[p]]]

\* the values sync() extracts from one ITEM object (lines 87-101)
Extract(obj) ==
    LET first == IF obj.variations # <<>> THEN obj.variations[1]
                 ELSE Variation(NULL, NullInt, NULL)
    IN  [variation_id |-> Get(first.id),
         name |-> GetD(obj.name, UNNAMED_ITEM),
         description |-> Get(obj.description),
         price_cents |-> first.amount,
         currency |-> Get(first.currency)]


\* uq_square_catalog_items_square_id over the rows this session inserts: the
\* rows it adds are never among the rows it loaded, so they can only collide
\* with each other
ItemInsertsAccepted(newItems) ==
    \A i, j \in 1..Len(newItems) :
        i # j => newItems[i].square_id # newItems[j].square_id

\* _create_record: build the row, bind a Product unless the item is deleted
\* (the flush in there also inserts the rows added so far), then session.add
CreateRecord(st, square_id, x, version, payload, is_deleted, now) ==
    LET record == [square_id |-> square_id,
                   variation_id |-> x.variation_id,
                   name |-> x.name,
                   description |-> x.description,
                   price_cents |-> x.price_cents,
                   currency |-> x.currency,
                   version |-> version,
                   raw_payload |-> payload,
                   is_deleted |-> is_deleted,
                   product_id |-> NoProduct,
                   updated_at |-> now]
    IN  IF is_deleted
        THEN [st EXCEPT !.newItems = Append(st.newItems, record)]
        ELSE LET b == EnsureProductBinding(record, st.prods)
             IN  IF b.failed \/ ~ItemInsertsAccepted(st.newItems)
                 THEN [st EXCEPT !.failed = TRUE]
                 ELSE [st EXCEPT !.newItems = Append(st.newItems, b.record),
                                 !.prods = b.prods]

\* mutant: every matched row counts as changed
UpdateRecordEager(record, x, version, payload, is_deleted, prods, now) ==
    [has_changes |-> TRUE, failed |-> FALSE,
     record |-> [record EXCEPT
                    !.variation_id = x.variation_id, !.name = x.name,
                    !.description = x.description, !.price_cents = x.price_cents,
                    !.currency = x.currency, !.version = version,
                    !.is_deleted = is_deleted, !.raw_payload = payload,
                    !.updated_at = now],
     prods |-> prods]

\* mutant: only a new version counts as a change
UpdateRecordVersionOnly(record, x, version, payload, is_deleted, prods, now) ==
    IF record.version = version
    THEN [has_changes |-> FALSE, failed |-> FALSE, record |-> record, prods |-> prods]
    ELSE [has_changes |-> TRUE, failed |-> FALSE,
          record |-> [record EXCEPT
                         !.variation_id = x.variation_id, !.name = x.name,
                         !.description = x.description, !.price_cents = x.price_cents,
                         !.currency = x.currency, !.version = version,
                         !.is_deleted = is_deleted, !.raw_payload = payload,
                         !.updated_at = now],
          prods |-> prods]

\* mutant: an update never creates a binding
UpdateRecordUnbound(record, x, version, payload, is_deleted, prods, now) ==
    LET has_changes ==
            \/ record.variation_id # x.variation_id
            \/ record.name # x.name
            \/ record.description # x.description
            \/ record.price_cents # x.price_cents
            \/ record.currency # x.currency
            \/ record.version # version
            \/ record.is_deleted # is_deleted
            \/ record.raw_payload # payload
        changed == [record EXCEPT
                        !.variation_id = x.variation_id, !.name = x.name,
                        !.description = x.description, !.price_cents = x.price_cents,
                        !.currency = x.currency, !.version = version,
                        !.is_deleted = is_deleted, !.raw_payload = payload,
                        !.updated_at = now]
    IN  IF ~has_changes
        THEN [has_changes |-> FALSE, failed |-> FALSE, record |-> record, prods |-> prods]
        ELSE [has_changes |-> TRUE, failed |-> FALSE, record |-> changed, prods |-> prods]

\* _update_record: field-by-field comparison; on any difference take all the
\* new values, bump updated_at and, unless deleted, ensure the binding
UpdateRecord(record, x, version, payload, is_deleted, prods, now) ==
    LET has_changes ==
            \/ record.variation_id # x.variation_id
            \/ record.name # x.name
            \/ record.description # x.description
            \/ record.price_cents # x.price_cents
            \/ record.currency # x.currency
            \/ record.version # version
            \/ record.is_deleted # is_deleted
            \/ record.raw_payload # payload
        changed == [record EXCEPT
                        !.variation_id = x.variation_id, !.name = x.name,
                        !.description = x.description, !.price_cents = x.price_cents,
                        !.currency = x.currency, !.version = version,
                        !.is_deleted = is_deleted, !.raw_payload = payload,
                        !.updated_at = now]
    IN  IF ~has_changes
        THEN [has_changes |-> FALSE, failed |-> FALSE, record |-> record, prods |-> prods]
        ELSE IF is_deleted
        THEN [has_changes |-> TRUE, failed |-> FALSE, record |-> changed, prods |-> prods]
        ELSE LET b == EnsureProductBinding(changed, prods)
             IN  [has_changes |-> TRUE, failed |-> b.failed, record |-> b.record,
                  prods |-> b.prods]

\* one iteration of `for obj in objects` (lines 77-130)
SyncObject(st, obj, now) ==
    IF obj.type # "ITEM" THEN st
    ELSE IF ~Truthy(Get(obj.id)) THEN st
    ELSE LET square_id == obj.id
             seen == [st EXCEPT !.seen_ids = st.seen_ids \cup {square_id}]
             x == Extract(obj)
         IN  IF square_id \in DOMAIN st.items
             THEN LET record == st.items[square_id]
                      version == IF obj.version = NullInt THEN record.version
                                 ELSE obj.version
                      u == UpdateRecord(record, x, version, obj, obj.is_deleted,
                                        st.prods, now)
                  IN  [seen EXCEPT !.items[square_id] = u.record,
                                   !.prods = u.prods,
                                   !.failed = u.failed,
                                   !.updated = IF u.has_changes THEN st.updated + 1
                                               ELSE st.updated]
             ELSE LET version == IF obj.version = NullInt THEN 0 ELSE obj.version
                      c == CreateRecord(seen, square_id, x, version, obj,
                                        obj.is_deleted, now)
                  IN  IF c.failed THEN c ELSE [c EXCEPT !.created = seen.created + 1]

RECURSIVE SyncLoop(_, _, _, _)
SyncLoop(st, objects, i, now) ==
    IF i > Len(objects) \/ st.failed THEN st
    ELSE SyncLoop(SyncObject(st, objects[i], now), objects, i + 1, now)

\* mutant: a stale row is deleted from the table
MarkStaleHard(items, seen_ids, now) ==
    [k \in {j \in DOMAIN items : j \in seen_ids \/ items[j].is_deleted} |-> items[k]]

\* mutant: stale rows are left as they are
MarkStaleNone(items, seen_ids, now) == items

\* mutant: deactivation stamps a new version on the row
MarkStaleBump(items, seen_ids, now) ==
    [k \in DOMAIN items |->
        IF k \notin seen_ids /\ ~items[k].is_deleted
        THEN [items[k] EXCEPT !.is_deleted = TRUE, !.updated_at = now,
                              !.version = items[k].version + 1]
        ELSE items[k]]

\* "Mark stale items as deleted" (lines 133-137)
MarkStale(items, seen_ids, now) ==
    [k \in DOMAIN items |->
        IF k \notin seen_ids /\ ~items[k].is_deleted
        THEN [items[k] EXCEPT !.is_deleted = TRUE, !.updated_at = now]
        ELSE items[k]]

\* the rows MarkStale marks: `deactivated += 1` for each
Deactivated(items, seen_ids) ==
    Cardinality({k \in DOMAIN items : k \notin seen_ids /\ ~items[k].is_deleted})

Stats(outcome, processed, created, updated, deactivated, errors) ==
    [outcome |-> outcome, processed |-> processed, created |-> created,
     updated |-> updated, deactivated |-> deactivated, errors |-> errors]
NoStats == Stats("none", 0, 0, 0, 0, <<>>)

CONFIG_ERROR == "SQUARE_SECRET_KEY (or file) must be configured"

\* mutant: the Products flushed before the exception stay in the table
SyncResultLeaky(e, items0, prods0, remote, now) ==
    LET same(stats) == [catalog |-> items0, products |-> prods0, stats |-> stats]
    IN  IF GetSquareRuntimeConfig(e).raised
        THEN same(Stats("returned", 0, 0, 0, 0, <<CONFIG_ERROR>>))
        ELSE IF remote.kind = "raise"
        THEN same(Stats("raised", 0, 0, 0, 0, <<>>))
        ELSE IF remote.kind = "error"
        THEN same(Stats("returned", 0, 0, 0, 0,
                        IF remote.errors = <<>> THEN <<"Unknown Square error">>
                        ELSE remote.errors))
        ELSE LET st0 == [items |-> items0, newItems |-> <<>>, prods |-> prods0,
                         seen_ids |-> {}, created |-> 0, updated |-> 0,
                         failed |-> FALSE]
                 st == SyncLoop(st0, remote.objects, 1, now)
             IN  IF st.failed \/ ~ItemInsertsAccepted(st.newItems)
                 THEN [catalog |-> items0, products |-> st.prods,
                       stats |-> Stats("raised", 0, 0, 0, 0, <<>>)]
                 ELSE LET marked == MarkStale(st.items, st.seen_ids, now)
                          added == {st.newItems[i].square_id : i \in 1..Len(st.newItems)}
                          rowOf(k) == st.newItems[CHOOSE i \in 1..Len(st.newItems) :
                                                     st.newItems[i].square_id = k]
                      IN  [catalog |-> [k \in DOMAIN marked \cup added |->
                                           IF k \in added THEN rowOf(k) ELSE marked[k]],
                           products |-> st.prods,
                           stats |-> Stats("returned", Cardinality(st.seen_ids),
                                           st.created, st.updated,
                                           Deactivated(st.items, st.seen_ids), <<>>)]

\* SquareCatalogSyncService.sync: the tables after it and what it returns
\* (outcome "raised": an exception left sync() and the session was discarded)
SyncResult(e, items0, prods0, remote, now) ==
    LET same(stats) == [catalog |-> items0, products |-> prods0, stats |-> stats]
    IN  IF GetSquareRuntimeConfig(e).raised
        THEN same(Stats("returned", 0, 0, 0, 0, <<CONFIG_ERROR>>))
        ELSE IF remote.kind = "raise"
        THEN same(Stats("raised", 0, 0, 0, 0, <<>>))
        ELSE IF remote.kind = "error"
        THEN same(Stats("returned", 0, 0, 0, 0,
                        IF remote.errors = <<>> THEN <<"Unknown Square error">>
                        ELSE remote.errors))
        ELSE LET st0 == [items |-> items0, newItems |-> <<>>, prods |-> prods0,
                         seen_ids |-> {}, created |-> 0, updated |-> 0,
                         failed |-> FALSE]
                 st == SyncLoop(st0, remote.objects, 1, now)
             IN  IF st.failed \/ ~ItemInsertsAccepted(st.newItems)
                 THEN same(Stats("raised", 0, 0, 0, 0, <<>>))
                 ELSE LET marked == MarkStale(st.items, st.seen_ids, now)
                          added == {st.newItems[i].square_id : i \in 1..Len(st.newItems)}
                          rowOf(k) == st.newItems[CHOOSE i \in 1..Len(st.newItems) :
                                                     st.newItems[i].square_id = k]
                      IN  [catalog |-> [k \in DOMAIN marked \cup added |->
                                           IF k \in added THEN rowOf(k) ELSE marked[k]],
                           products |-> st.prods,
                           stats |-> Stats("returned", Cardinality(st.seen_ids),
                                           st.created, st.updated,
                                           Deactivated(st.items, st.seen_ids), <<>>)]

Sync(remote) ==
    /\ syncs < MaxSyncs
    /\ \E r \in {SyncResult(env, catalog, products, remote, syncs + 1)} :
           /\ catalog' = r.catalog
           /\ products' = r.products
           /\ lastStats' = r.stats
    /\ lastListing' = remote
    /\ prevCatalog' = catalog
    /\ prevProducts' = products
    /\ syncs' = syncs + 1
    /\ UNCHANGED <<env, webhookVars, mappingVars, verifyVars, raceVars, paymentVars, syncRaceVars>>

RunSync == \E remote \in RemoteResults : Sync(remote)


\* ===================================================== the status mapping
\* spellings of a word: itself, all lower case, one letter lowered, one
\* character dropped from the end, one character added
Lower(s) == [i \in 1..Len(s) |-> LowerChar(s[i])]
LowerAt(s, k) == [i \in 1..Len(s) |-> IF i = k THEN LowerChar(s[i]) ELSE s[i]]
Spellings(w) ==
    {w, Lower(w), Append(w, "X")}
    \cup {LowerAt(w, k) : k \in 1..Len(w)}
    \cup (IF w = <<>> THEN {} ELSE {SubSeq(w, 1, Len(w) - 1)})

StatusInputs ==
    {NullS, <<>>} \cup UNION {Spellings(w) : w \in MappingKeys \cup {BOGUS}}

NotCalled == "<not called>"

CallMapping(status_value) ==
    /\ mapIn' = status_value
    /\ mapOut' = SquareStatusToInternal(status_value)
    /\ UNCHANGED <<env, webhookVars, catalogVars, verifyVars, raceVars, paymentVars, syncRaceVars>>

MapStatus == \E status_value \in StatusInputs : CallMapping(status_value)

\* ================================================= the signature verifier
\* request URLs and raw bodies; two (url, body) pairs share url + body
VerifyUrls == {<<"u">>, <<"u", "b">>}
VerifyBodies == {<<>>, <<"b">>, <<"b", "b">>}
\* headers: none, empty, and signatures of every message under two keys
VerifyHeaders ==
    {NoHeader, EmptyHeader}
    \cup {Mac(k, url \o raw_body) : k \in {"k1", "k2"}, url \in VerifyUrls,
                                   raw_body \in VerifyBodies}

NoVerifyCall == [called |-> FALSE, raised |-> FALSE, valid |-> FALSE]

CallVerify(raw_body, url, provided_signature) ==
    /\ verIn' = [raw_body |-> raw_body, url |-> url,
                 provided_signature |-> provided_signature]
    /\ \E v \in {VerifySquareSignature(env, raw_body, url, provided_signature)} :
           verOut' = [called |-> TRUE, raised |-> v.raised, valid |-> v.valid]
    /\ UNCHANGED <<env, webhookVars, catalogVars, mappingVars, raceVars, paymentVars, syncRaceVars>>

Verify ==
    \E raw_body \in VerifyBodies, url \in VerifyUrls, provided_signature \in VerifyHeaders :
        CallVerify(raw_body, url, provided_signature)


\* ============================================ concurrent webhook requests
\* Each request runs handle_square_webhook in its own session and transaction
\* (get_session); the awaits between its database round trips let other
\* requests run.  A request is taken in three steps: up to session.add (the
\* existence check reads committed rows), the dispatch with the bookkeeping
\* after it, and the commit.  The store is PostgreSQL: a transaction sees
\* committed rows only, and an INSERT of an event_id that another open
\* transaction has inserted waits for that transaction to end.
RaceSlots == 1..MaxInFlight
RaceEnv == [SQUARE_SECRET_KEY |-> "tok", SQUARE_WEBHOOK_SIGNATURE_KEY |-> "k1"]

\* the deliveries that race: a payment event, the same event id with another
\* type, with a wrong signature and with a null type, a second event for the
\* same Payment, and a payload without an event id
RaceRequests ==
    [bodyKind : {"object"},
     payload : { Payload(EVT1, ABSENT, T_PAYMENT_UPDATED, NestedPay(PAY1, COMPLETED)),
                 Payload(EVT1, ABSENT, T_ORDER_CREATED, NestedPay(PAY1, COMPLETED)),
                 Payload(EVT1, ABSENT, NullS, NestedPay(PAY1, COMPLETED)),
                 Payload(EVT2, ABSENT, T_PAYMENT_UPDATED, NestedPay(PAY1, FAILED)),
                 Payload(ABSENT, ABSENT, T_PAYMENT_UPDATED, NestedPay(PAY1, COMPLETED)) },
     url : {URL}, raw : {RAW}, sig : {GoodHeader}]
    \cup [bodyKind : {"object"},
          payload : { Payload(EVT1, ABSENT, T_PAYMENT_UPDATED, NestedPay(PAY1, COMPLETED)) },
          url : {URL}, raw : {RAW}, sig : {Mac("k2", URL \o RAW)}]

INTEGRITY_ERROR == "IntegrityError"
PENDING_ROLLBACK == "PendingRollbackError"
OPERATIONAL_ERROR == "OperationalError"

\* a committed row of square_webhook_events
EventRow(event_id, record) == [event_id |-> event_id, record |-> record]

\* select(SquareWebhookEvent).where(event_id == ...) over the committed rows
ExistingEvents(evs, event_id) == {i \in 1..Len(evs) : evs[i].event_id = event_id}

\* mutant: the table has no unique constraint on event_id
EventIdTakenNever(evs, event_id) == FALSE

\* uq_square_webhook_events_event_id against the committed rows
EventIdTaken(evs, event_id) == \E i \in 1..Len(evs) : evs[i].event_id = event_id

\* the Payment a session has loaded and changed (id 0: none)
NoWrite == [id |-> 0]

IdleSession ==
    [pc |-> "idle",
     req |-> [bodyKind |-> "none"],
     event_id |-> ABSENT,
     record |-> [status |-> "none"],    \* no SquareWebhookEvent built yet
     passed |-> FALSE,              \* the existence check found no row
     inserted |-> FALSE,            \* the INSERT of the event row was flushed
     broken |-> FALSE,              \* a flush failed: the transaction is void
     uniqueViolation |-> FALSE,     \* ... on the event_id constraint
     write |-> NoWrite,
     committed |-> FALSE,
     resp |-> NoResp]

\* another open transaction has inserted this event_id and not yet ended
InsertPendingElsewhere(sess, s, event_id) ==
    \E t \in DOMAIN sess \ {s} :
        /\ sess[t].pc = "dispatched"
        /\ sess[t].inserted
        /\ sess[t].event_id = event_id

\* lines 89-123: parse, event id, signature, existence check, session.add
RaceLookup(s, req) ==
    /\ rSess[s].pc = "idle"
    /\ \A t \in 1..(s - 1) : rSess[t].pc # "idle"
    /\ LET payload == req.payload
           event_id == ExtractEventId(payload)
           signature_valid == SignatureValid(env, req)
           existing == ExistingEvents(rEvents, event_id)
           started == [IdleSession EXCEPT !.req = req]
       IN  rSess' = [rSess EXCEPT ![s] =
               IF ~Truthy(event_id)
               THEN [started EXCEPT !.pc = "done",
                                    !.resp = ErrorResp(422, "Missing event_id")]
               ELSE IF existing # {}
               THEN [started EXCEPT
                        !.pc = "done", !.event_id = event_id,
                        !.resp = DuplicateResp(
                            rEvents[CHOOSE i \in existing : TRUE].record.status)]
               ELSE [started EXCEPT
                        !.pc = "added", !.event_id = event_id, !.passed = TRUE,
                        !.record = NewEventRecord(payload, signature_valid)]]
    /\ UNCHANGED <<rEvents, rPayments>>
    /\ UNCHANGED <<env, webhookVars, catalogVars, mappingVars, verifyVars, paymentVars, syncRaceVars>>

\* _dispatch_event gets as far as the select in _apply_payment_update, whose
\* autoflush sends the INSERT of the event row added before it
ReachesSelect(payload) ==
    /\ payload.data.kind # "null"
    /\ payload.type # NullS
    /\ StartsWith(GetDS(payload.type, T_UNKNOWN), T_PAYMENT_DOT)
    /\ payload.data.object.kind # "null"
    /\ Truthy(Get(PaymentPayloadOf(payload.data.object).id))

\* the session after lines 125-142, given the committed tables
Dispatched(sess, s, evs, pays) ==
    LET me == sess[s]
        payload == me.req.payload
        now == s
        finish(status, reason) == FinishRecord(me.record, status, reason, now)
    IN  IF ~me.record.signature_verified
        THEN [me EXCEPT !.pc = "dispatched",
                        !.record = finish("rejected", "Signature verification failed")]
        ELSE IF ~ReachesSelect(payload)
        THEN LET d == DispatchEvent(payload, pays, now)
             IN  [me EXCEPT !.pc = "dispatched", !.record = finish(d.status, d.reason)]
        ELSE IF EventIdTaken(evs, me.event_id)
        THEN [me EXCEPT !.pc = "dispatched", !.broken = TRUE, !.uniqueViolation = TRUE,
                        !.record = finish("failed", INTEGRITY_ERROR)]
        ELSE LET d == DispatchEvent(payload, pays, now)
                 touched == {i \in DOMAIN pays : d.pays[i] # pays[i]}
             IN  [me EXCEPT
                     !.pc = "dispatched", !.inserted = TRUE,
                     !.record = finish(d.status, d.reason),
                     !.write = IF touched = {} THEN NoWrite
                               ELSE LET i == CHOOSE j \in touched : TRUE
                                    IN  [id |-> i, read |-> pays[i], new |-> d.pays[i]]]

\* lines 125-142: rejected, or the handler's outcome, or failed
RaceDispatch(s) ==
    /\ rSess[s].pc = "added"
    /\ (rSess[s].record.signature_verified /\ ReachesSelect(rSess[s].req.payload))
          => ~InsertPendingElsewhere(rSess, s, rSess[s].event_id)
    /\ rSess' = [rSess EXCEPT ![s] = Dispatched(rSess, s, rEvents, rPayments)]
    /\ UNCHANGED <<rEvents, rPayments>>
    /\ UNCHANGED <<env, webhookVars, catalogVars, mappingVars, verifyVars, paymentVars, syncRaceVars>>

\* the UPDATE the unit of work sends for a changed Payment: the columns whose
\* value differs from the loaded one
WritePayment(pays, write) ==
    IF write.id = 0 THEN pays
    ELSE [pays EXCEPT
            ![write.id].status =
                IF write.new.status # write.read.status THEN write.new.status ELSE @,
            ![write.id].extra_data =
                IF write.new.extra_data # write.read.extra_data
                THEN write.new.extra_data ELSE @]

\* mutant: a failed commit leaves the Payment change behind
CommitWritesPartial(me, evs, pays, accepted) ==
    [events |-> IF accepted THEN Append(evs, EventRow(me.event_id, me.record)) ELSE evs,
     payments |-> WritePayment(pays, me.write)]

\* session.commit(): the event row and the Payment change become visible
\* together, or the transaction is rolled back and neither does
CommitWrites(me, evs, pays, accepted) ==
    IF accepted
    THEN [events |-> Append(evs, EventRow(me.event_id, me.record)),
          payments |-> WritePayment(pays, me.write)]
    ELSE [events |-> evs, payments |-> pays]

\* why session.commit() raises, or "" when it does not: a transaction voided
\* by a failed flush, the constraints of an INSERT not flushed before, or the
\* database failing the commit itself (db_ok false)
CommitError(me, evs, db_ok) ==
    IF me.broken THEN PENDING_ROLLBACK
    ELSE IF ~me.inserted /\ me.record.event_type = NullS THEN INTEGRITY_ERROR
    ELSE IF ~me.inserted /\ EventIdTaken(evs, me.event_id) THEN INTEGRITY_ERROR
    ELSE IF ~db_ok THEN OPERATIONAL_ERROR
    ELSE ""

\* lines 144-151: commit and answer; an exception of the commit ends the
\* request as a 500 and get_session closes the session (rollback)
RaceCommit(s, db_ok) ==
    /\ rSess[s].pc = "dispatched"
    /\ (~rSess[s].broken /\ ~rSess[s].inserted)
          => ~InsertPendingElsewhere(rSess, s, rSess[s].event_id)
    /\ LET me == rSess[s]
           error == CommitError(me, rEvents, db_ok)
           w == CommitWrites(me, rEvents, rPayments, error = "")
       IN  /\ rEvents' = w.events
           /\ rPayments' = w.payments
           /\ rSess' = [rSess EXCEPT ![s] =
                  IF error = ""
                  THEN [me EXCEPT
                          !.pc = "done", !.committed = TRUE,
                          !.resp = OkResp(me.record.status, me.event_id,
                                          me.record.signature_verified,
                                          me.record.failure_reason)]
                  ELSE [me EXCEPT
                          !.pc = "done",
                          !.uniqueViolation =
                              me.uniqueViolation
                              \/ (~me.broken /\ ~me.inserted
                                    /\ me.record.event_type # NullS
                                    /\ EventIdTaken(rEvents, me.event_id)),
                          !.resp = ErrorResp(500, error)]]
    /\ UNCHANGED <<env, webhookVars, catalogVars, mappingVars, verifyVars, paymentVars, syncRaceVars>>

Race ==
    \E s \in RaceSlots :
        \/ \E req \in RaceRequests : RaceLookup(s, req)
        \/ RaceDispatch(s)
        \/ \E db_ok \in BOOLEAN : RaceCommit(s, db_ok)

\* ============================================================ create_payment
\* POST /payments/create charges a card through Square and then records the
\* payment locally; it works on the same payments table as the webhook.
MaxCreates == 1
API_ERROR == "API_ERROR"
AUTHENTICATION_ERROR == "AUTHENTICATION_ERROR"
PAYMENT_METHOD_ERROR == "PAYMENT_METHOD_ERROR"
UNKNOWN == <<"U", "N", "K", "N", "O", "W", "N">>

\* amount_cents as computed from the request: 0 for an amount that rounds to
\* no cent
CreateAmounts == {0, 900}

\* what get_square_client() / call_square("payments.create_payment", ...) can
\* come back with: a success carrying the Square payment, an error response
\* with its error categories, a RequestException (timeout) or another exception
CreateOutcomes ==
    [kind : {"success"},
     payment : {Pay(PAYX, COMPLETED), Pay(PAYX, APPROVED), Pay(PAY1, FAILED)},
     categories : {{}}]
    \cup [kind : {"rejected"}, payment : {NoPay("absent")},
          categories : {{API_ERROR}, {PAYMENT_METHOD_ERROR}, {}}]
    \cup [kind : {"timeout", "raise"}, payment : {NoPay("absent")}, categories : {{}}]

\* the HTTP answer: PaymentIntentResponse (201) or an error status
CreateResp(code, square_payment_id, status) ==
    [code |-> code, square_payment_id |-> square_payment_id, status |-> status]
CreateError(code) == CreateResp(code, "", NullS)

\* _upsert_payment_record up to session.add: the row with this Square payment
\* id takes the amount, the mapped status and the Square payment as
\* square_response (its other extra_data keys stay); without such a row a new
\* Payment is built
UpsertPaymentRecord(pays, amount_cents, square_payment) ==
    LET square_payment_id == Get(square_payment.id)
        existing == IF Truthy(square_payment_id)
                    THEN {i \in DOMAIN pays :
                            pays[i].square_payment_id = square_payment_id}
                    ELSE {}
        status_value == SquareStatusToInternal(GetS(square_payment.status))
    IN  IF existing # {}
        THEN LET i == CHOOSE j \in existing : TRUE
             IN  [pays EXCEPT
                    ![i].amount = amount_cents,
                    ![i].status = status_value,
                    ![i].extra_data = ExtraData(@.webhook_history, square_payment)]
        ELSE LET id == Cardinality(DOMAIN pays) + 1
             IN  [i \in DOMAIN pays \cup {id} |->
                    IF i = id
                    THEN [square_payment_id |-> square_payment_id,
                          amount |-> amount_cents,
                          status |-> status_value,
                          extra_data |-> ExtraData(<<>>, square_payment)]
                    ELSE pays[i]]

\* mutant: the Payment is recorded before Square is called
CreatePaymentResultEager(e, pays, amount_cents, remote, db_ok) ==
    LET wrote == UpsertPaymentRecord(pays, amount_cents, Pay(PAYX, AbsentS))
    IN  IF amount_cents <= 0 THEN [payments |-> pays, resp |-> CreateError(400)]
        ELSE IF GetSquareRuntimeConfig(e).raised
        THEN [payments |-> wrote, resp |-> CreateError(500)]
        ELSE IF remote.kind = "timeout"
        THEN [payments |-> wrote, resp |-> CreateError(504)]
        ELSE IF remote.kind = "raise"
        THEN [payments |-> wrote, resp |-> CreateError(500)]
        ELSE IF remote.kind = "rejected"
        THEN [payments |-> wrote,
              resp |-> CreateError(
                  IF remote.categories \cap {API_ERROR, AUTHENTICATION_ERROR} # {}
                  THEN 502 ELSE 400)]
        ELSE [payments |-> IF db_ok
                           THEN UpsertPaymentRecord(pays, amount_cents, remote.payment)
                           ELSE pays,
              resp |-> CreateResp(201, GetD(remote.payment.id, ""),
                                  GetDS(remote.payment.status, UNKNOWN))]

\* create_payment: the payments table after it and the answer.  The amount
\* check comes first; a configuration error is a 500, a RequestException a
\* 504, any other exception of the call leaves the handler (500), an error
\* response is proxied as 502 or 400; only after a success the local upsert
\* runs, and an exception of it (db_ok false: the commit fails and the
\* session is discarded) is logged and swallowed.
CreatePaymentResult(e, pays, amount_cents, remote, db_ok) ==
    IF amount_cents <= 0 THEN [payments |-> pays, resp |-> CreateError(400)]
    ELSE IF GetSquareRuntimeConfig(e).raised
    THEN [payments |-> pays, resp |-> CreateError(500)]
    ELSE IF remote.kind = "timeout"
    THEN [payments |-> pays, resp |-> CreateError(504)]
    ELSE IF remote.kind = "raise"
    THEN [payments |-> pays, resp |-> CreateError(500)]
    ELSE IF remote.kind = "rejected"
    THEN [payments |-> pays,
          resp |-> CreateError(
              IF remote.categories \cap {API_ERROR, AUTHENTICATION_ERROR} # {}
              THEN 502 ELSE 400)]
    ELSE [payments |-> IF db_ok
                       THEN UpsertPaymentRecord(pays, amount_cents, remote.payment)
                       ELSE pays,
          resp |-> CreateResp(201, GetD(remote.payment.id, ""),
                              GetDS(remote.payment.status, UNKNOWN))]

NoRequest ==
    [req |-> [bodyKind |-> "none", payload |-> NoPayload,
              url |-> URL, raw |-> RAW, sig |-> NoHeader],
     dispatched |-> FALSE]

CreatePayment(amount_cents, remote, db_ok) ==
    /\ creates < MaxCreates
    /\ \E r \in {CreatePaymentResult(env, payments, amount_cents, remote, db_ok)} :
           /\ payments' = r.payments
           /\ lastCreate' = [called |-> TRUE, amount_cents |-> amount_cents,
                             remote |-> remote, db_ok |-> db_ok, resp |-> r.resp]
    /\ creates' = creates + 1
    /\ prevPayments' = payments
    /\ prevEvents' = events
    /\ lastReq' = NoRequest
    /\ lastResp' = NoResp
    /\ UNCHANGED <<events, clock, firstResp>>
    /\ UNCHANGED <<env, catalogVars, mappingVars, verifyVars, raceVars, syncRaceVars>>

Create ==
    \E amount_cents \in CreateAmounts, remote \in CreateOutcomes, db_ok \in BOOLEAN :
        CreatePayment(amount_cents, remote, db_ok)

\* the deliveries that meet create_payment: an event for a Square payment that
\* has no local Payment yet, with a good and with a wrong signature, and one
\* for the seeded Payment
PaymentRequests ==
    [bodyKind : {"object"},
     payload : { Payload(EVT1, ABSENT, T_PAYMENT_UPDATED, NestedPay(PAYX, COMPLETED)),
                 Payload(EVT2, ABSENT, T_PAYMENT_UPDATED, NestedPay(PAY1, FAILED)) },
     url : {URL}, raw : {RAW}, sig : {GoodHeader}]
    \cup [bodyKind : {"object"},
          payload : { Payload(EVT1, ABSENT, T_PAYMENT_UPDATED, NestedPay(PAYX, COMPLETED)) },
          url : {URL}, raw : {RAW}, sig : {Mac("k2", URL \o RAW)}]

DeliverPayment == \E req \in PaymentRequests : HandleSquareWebhook(req)

\* ================================================== concurrent sync() passes
\* Each sync() runs in its own session and transaction.  A pass is taken in
\* three steps: the Square listing and _load_existing_items (committed rows),
\* the object loop with the stale marking (its flushes send the Product
\* INSERTs), and session.commit(), whose flush sends the INSERTs of the new
\* items and the UPDATEs.  PostgreSQL: an INSERT of a key that another open
\* transaction has inserted waits for that transaction to end, and then
\* fails if it was committed.  The tables are kept as their rows, so that two
\* rows with one Square id can be told from one.
MaxPasses == 3
SyncSlots == 1..MaxPasses

\* the listings that race; each holds at most one new item, as its last
\* object, so that no item INSERT is sent before the commit
SyncListings ==
    { <<CatalogObject("ITEM", ITM2, ABSENT, <<>>, NullInt, FALSE)>>,
      <<CatalogObject("ITEM", ITM1, "Tea", <<Variation("VAR1", 500, "USD")>>, 2, TRUE)>>,
      <<CatalogObject("ITEM", ITM1, "Tea", <<Variation("VAR1", 500, "USD")>>, 1, FALSE)>> }

\* the square_catalog_items rows of a store
RECURSIVE RowsOfStore(_)
RowsOfStore(items) ==
    IF DOMAIN items = {} THEN <<>>
    ELSE LET k == CHOOSE j \in DOMAIN items : TRUE
         IN  Append(RowsOfStore([j \in DOMAIN items \ {k} |-> items[j]]), items[k])

IdlePass ==
    [pc |-> "idle",
     objects |-> <<>>,
     items0 |-> <<>>,          \* existing_items as loaded
     changed |-> <<>>,         \* the loaded rows as the pass left them
     newItems |-> <<>>,        \* the rows it added
     newProds |-> <<>>,        \* the Products it added and flushed
     base |-> 0,               \* number of Products it saw at the flush
     outcome |-> "none"]

\* _load_existing_items: {record.square_id: record for record in records}
LoadExistingItems(rows) ==
    LET at(k) == {i \in 1..Len(rows) : rows[i].square_id = k}
    IN  [k \in {rows[i].square_id : i \in 1..Len(rows)} |->
            rows[CHOOSE i \in at(k) : \A j \in at(k) : j <= i]]

\* mutant: the table has no unique constraint on square_id
SquareIdTakenNever(rows, square_id) == FALSE

\* uq_square_catalog_items_square_id against the committed rows
SquareIdTaken(rows, square_id) == \E i \in 1..Len(rows) : rows[i].square_id = square_id

\* lines 53-70: the listing arrives and the existing items are loaded
PassLoad(s, objects) ==
    /\ sPass[s].pc = "idle"
    /\ \A t \in 1..(s - 1) : sPass[t].pc # "idle"
    /\ sPass' = [sPass EXCEPT ![s] =
           [IdlePass EXCEPT !.pc = "loaded", !.objects = objects,
                            !.items0 = LoadExistingItems(sCatalog)]]
    /\ UNCHANGED <<sCatalog, sProducts>>
    /\ UNCHANGED <<env, webhookVars, catalogVars, mappingVars, verifyVars, raceVars,
                   paymentVars>>

\* the object loop and the stale marking of a pass, on the rows it loaded and
\* the Products committed now
PassLoop(me, prods, now) ==
    LET st0 == [items |-> me.items0, newItems |-> <<>>, prods |-> prods,
                seen_ids |-> {}, created |-> 0, updated |-> 0, failed |-> FALSE]
        st == SyncLoop(st0, me.objects, 1, now)
    IN  [st EXCEPT !.items = MarkStale(st.items, st.seen_ids, now)]

\* the external ids of the Products other open transactions have inserted
PendingProductKeys(pass, s) ==
    UNION {{pass[t].newProds[i].square_catalog_object_id :
                i \in 1..Len(pass[t].newProds)} :
           t \in {u \in DOMAIN pass \ {s} : pass[u].pc = "flushed"}}

\* datetime.now() of a pass: later than that of the passes that ran before it
PassClock(pass) ==
    Cardinality({t \in DOMAIN pass : pass[t].pc \in {"flushed", "done"}}) + 1

\* the Products a pass added, in the order of their ids
AddedProducts(st, base) ==
    [i \in 1..(Cardinality(DOMAIN st.prods) - base) |-> st.prods[base + i]]

\* lines 77-137: the loop and the stale marking; a Product INSERT that meets a
\* committed Product of the same external id raises IntegrityError and the
\* exception leaves sync()
PassWork(s) ==
    /\ sPass[s].pc = "loaded"
    /\ LET me == sPass[s]
           base == Cardinality(DOMAIN sProducts)
           st == PassLoop(me, sProducts, PassClock(sPass))
           added == AddedProducts(st, base)
       IN  /\ ~st.failed =>
                  {added[i].square_catalog_object_id : i \in 1..Len(added)}
                      \cap PendingProductKeys(sPass, s) = {}
           /\ sPass' = [sPass EXCEPT ![s] =
                  IF st.failed
                  THEN [me EXCEPT !.pc = "done", !.outcome = "raised"]
                  ELSE [me EXCEPT
                          !.pc = "flushed",
                          !.changed = st.items,
                          !.newItems = st.newItems,
                          !.newProds = added,
                          !.base = base]]
    /\ UNCHANGED <<sCatalog, sProducts>>
    /\ UNCHANGED <<env, webhookVars, catalogVars, mappingVars, verifyVars, raceVars,
                   paymentVars>>

\* the UPDATE the unit of work sends for a loaded row: the columns whose value
\* differs from the loaded one
WriteItem(row, read, new) ==
    [f \in DOMAIN row |-> IF new[f] # read[f] THEN new[f] ELSE row[f]]

\* session.commit() of a pass that can commit: its UPDATEs, the rows it
\* added and its Products; the ids of its Products follow those committed
\* meanwhile
PassWrites(me, rows, prods) ==
    LET offset == Cardinality(DOMAIN prods) - me.base
        moved(id) == IF id > me.base THEN id + offset ELSE id
        updated == [i \in 1..Len(rows) |->
                      IF rows[i].square_id \in DOMAIN me.items0
                      THEN LET k == rows[i].square_id
                               w == WriteItem(rows[i], me.items0[k], me.changed[k])
                           IN  IF me.changed[k].product_id # me.items0[k].product_id
                               THEN [w EXCEPT !.product_id = moved(@)]
                               ELSE w
                      ELSE rows[i]]
        inserted == [i \in 1..Len(me.newItems) |->
                       [me.newItems[i] EXCEPT !.product_id = moved(@)]]
        n == Cardinality(DOMAIN prods)
    IN  [catalog |-> updated \o inserted,
         products |-> [p \in DOMAIN prods \cup {n + i : i \in 1..Len(me.newProds)} |->
                          IF p \in DOMAIN prods THEN prods[p]
                          ELSE me.newProds[p - n]]]

\* why session.commit() raises, or "": the INSERT of a new item meets a
\* committed row, or one of this pass, with its square_id, or the database
\* fails the transaction (db_ok false: a deadlock victim, a lost connection)
PassCommitError(me, rows, db_ok) ==
    IF ~ItemInsertsAccepted(me.newItems) THEN INTEGRITY_ERROR
    ELSE IF \E i \in 1..Len(me.newItems) : SquareIdTaken(rows, me.newItems[i].square_id)
    THEN INTEGRITY_ERROR
    ELSE IF ~db_ok THEN OPERATIONAL_ERROR
    ELSE ""

\* line 139: commit; an exception leaves sync() and the session is discarded
PassCommit(s, db_ok) ==
    /\ sPass[s].pc = "flushed"
    /\ LET me == sPass[s]
           error == PassCommitError(me, sCatalog, db_ok)
           w == PassWrites(me, sCatalog, sProducts)
       IN  /\ sCatalog' = IF error = "" THEN w.catalog ELSE sCatalog
           /\ sProducts' = IF error = "" THEN w.products ELSE sProducts
           /\ sPass' = [sPass EXCEPT ![s] =
                  [me EXCEPT !.pc = "done",
                             !.outcome = IF error = "" THEN "returned" ELSE "raised"]]
    /\ UNCHANGED <<env, webhookVars, catalogVars, mappingVars, verifyVars, raceVars,
                   paymentVars>>

SyncRace ==
    \E s \in SyncSlots :
        \/ \E objects \in SyncListings : PassLoad(s, objects)
        \/ PassWork(s)
        \/ \E db_ok \in BOOLEAN : PassCommit(s, db_ok)

\* ========================================================= specifications
InitCommon ==
    /\ events = <<>>
    /\ payments = InitPayments
    /\ clock = 0
    /\ lastReq = [req |-> [bodyKind |-> "none", payload |-> NoPayload,
                           url |-> URL, raw |-> RAW, sig |-> NoHeader],
                  dispatched |-> FALSE]
    /\ prevEvents = <<>>
    /\ prevPayments = InitPayments
    /\ lastResp = NoResp
    /\ firstResp = <<>>
    /\ syncs = 0
    /\ lastListing = [kind |-> "none", objects |-> <<>>, errors |-> <<>>]
    /\ lastStats = NoStats
    /\ mapIn = NullS
    /\ mapOut = NotCalled
    /\ verIn = [raw_body |-> <<>>, url |-> <<>>, provided_signature |-> NoHeader]
    /\ verOut = NoVerifyCall
    /\ rEvents = <<>>
    /\ rPayments = InitPayments
    /\ rSess = [s \in RaceSlots |-> IdleSession]
    /\ sPass = [s \in SyncSlots |-> IdlePass]
    /\ creates = 0
    /\ lastCreate = NoCreate

EmptyStore == [catalog |-> <<>>, products |-> <<>>]
InitStore(store) ==
    /\ catalog = store.catalog
    /\ products = store.products
    /\ prevCatalog = store.catalog
    /\ prevProducts = store.products
    /\ sCatalog = RowsOfStore(store.catalog)
    /\ sProducts = store.products

\* the webhook pipeline, in every configuration of the two Square secrets
InitWebhook == InitCommon /\ InitStore(EmptyStore) /\ env \in EnvSet
NextWebhook == Deliver
SpecWebhook == InitWebhook /\ [][NextWebhook]_vars

\* create_payment next to the webhook, with and without an access token
InitPayment ==
    /\ InitCommon
    /\ InitStore(EmptyStore)
    /\ env \in {e \in EnvSet : e.SQUARE_WEBHOOK_SIGNATURE_KEY = "k1"}
NextPayment == Create \/ DeliverPayment
SpecPayment == InitPayment /\ [][NextPayment]_vars

\* catalog sync, with and without an access token
\* The store is empty, or is what an earlier process left after one sync()
\* of a listing holding the first pool item.
SeedEnv == [SQUARE_SECRET_KEY |-> "tok", SQUARE_WEBHOOK_SIGNATURE_KEY |-> ""]
SeedListing ==
    <<CatalogObject("ITEM", ITM1, "Tea", <<Variation("VAR1", 500, "USD")>>, 1, FALSE)>>
SeedStore ==
    LET r == SyncResult(SeedEnv, <<>>, <<>>,
                        [kind |-> "ok", objects |-> SeedListing, errors |-> <<>>], 0)
    IN  [catalog |-> r.catalog, products |-> r.products]

InitCatalog ==
    /\ InitCommon
    /\ env \in {e \in EnvSet : e.SQUARE_WEBHOOK_SIGNATURE_KEY = ""}
    /\ \E store \in {EmptyStore, SeedStore} : InitStore(store)
NextCatalog == RunSync
SpecCatalog == InitCatalog /\ [][NextCatalog]_vars

\* sync() passes that overlap on one store
InitSyncRace ==
    /\ InitCommon
    /\ env = SeedEnv
    /\ \E store \in {EmptyStore, SeedStore} : InitStore(store)
NextSyncRace == SyncRace
SpecSyncRace == InitSyncRace /\ [][NextSyncRace]_vars

\* calls of _square_status_to_internal
InitMapping == InitCommon /\ InitStore(EmptyStore) /\ env \in {e \in EnvSet : e.SQUARE_SECRET_KEY = "tok"}
NextMapping == MapStatus
SpecMapping == InitMapping /\ [][NextMapping]_vars

\* calls of verify_square_signature, in every configuration of the secrets
InitVerify == InitCommon /\ InitStore(EmptyStore) /\ env \in EnvSet
NextVerify == Verify
SpecVerify == InitVerify /\ [][NextVerify]_vars

\* webhook requests that overlap, with both secrets configured
InitRace == InitCommon /\ InitStore(EmptyStore) /\ env = RaceEnv
NextRace == Race
SpecRace == InitRace /\ [][NextRace]_vars

Init == InitCommon /\ InitStore(EmptyStore) /\ env \in EnvSet
Next == Deliver \/ RunSync \/ MapStatus \/ Verify \/ Race \/ Create \/ DeliverPayment
          \/ SyncRace
Spec == Init /\ [][Next]_vars


\* ================================================================ claims
\* ---- what the last webhook request was
LastPayload == lastReq.req.payload
LastEventId == ExtractEventId(LastPayload)
\* it parsed and carried an event id
LastHadEventId == lastReq.req.bodyKind = "object" /\ Truthy(LastEventId)
\* ... and that id was not stored yet
LastWasFirstDelivery == LastHadEventId /\ LastEventId \notin DOMAIN prevEvents
\* ... or it was
LastWasReplay == LastHadEventId /\ LastEventId \in DOMAIN prevEvents
\* the signature the provider computes for the request under a key
ExpectedSignature(key) == Mac(key, lastReq.req.url \o lastReq.req.raw)
SecretConfigured == env.SQUARE_WEBHOOK_SIGNATURE_KEY # ""
LastTypeIsString == LastPayload.type # NullS
LastTypePrefixed ==
    /\ LastPayload.type \notin {AbsentS, NullS}
    /\ StartsWith(LastPayload.type, T_PAYMENT_DOT)
\* the payment object of the last payload, when data and data.object are dicts
LastHasPaymentObject ==
    LastPayload.data.kind = "dict" /\ LastPayload.data.object.kind = "dict"
LastPaymentObject == PaymentPayloadOf(LastPayload.data.object)
\* the local payments it names
LastMatched ==
    IF LastHasPaymentObject /\ Truthy(Get(LastPaymentObject.id))
    THEN {i \in DOMAIN prevPayments :
            prevPayments[i].square_payment_id = LastPaymentObject.id}
    ELSE {}

\* C1: a delivery of an event id that is already stored is answered 202 with
\* duplicate=true and the status the first delivery of that id was answered
\* with, and leaves the event table (status, failure_reason, processed_at of
\* every row) and the payments as they were.
C1_IdempotentDelivery ==
    LastWasReplay =>
        /\ lastResp.code = 202
        /\ lastResp.duplicate
        /\ lastResp.status = firstResp[LastEventId].status
        /\ events = prevEvents
        /\ payments = prevPayments

\* C1 witness: a processed payment event was delivered again
C1_Witness ==
    /\ LastWasReplay
    /\ lastReq.req.payload = prevEvents[LastEventId].payload
    /\ lastResp.duplicate
    /\ lastResp.status = "processed"
    /\ prevEvents[LastEventId].processed_at # NoTime

SameIgnoringCase(a, b) ==
    /\ Len(a) = Len(b)
    /\ \A i \in 1..Len(a) : a[i] = b[i] \/ a[i] = LowerChar(b[i]) \/ LowerChar(a[i]) = b[i]
TableImage(s) ==
    IF \E k \in MappingKeys : SameIgnoringCase(s, k)
    THEN mapping(CHOOSE k \in MappingKeys : SameIgnoringCase(s, k))
    ELSE STATUS_PENDING

\* C3: a first delivery with the expected signature, an event type that starts
\* with "payment." and a payment id that is some local Payment's
\* square_payment_id is answered processed, and that Payment's status is the
\* table image of the payload's status.
C3_SignatureGateAccept ==
    (LastWasFirstDelivery /\ SecretConfigured
        /\ lastReq.req.sig = ExpectedSignature(env.SQUARE_WEBHOOK_SIGNATURE_KEY)
        /\ LastTypePrefixed /\ LastMatched # {}) =>
        /\ lastResp.code = 202
        /\ lastResp.status = "processed"
        /\ events[LastEventId].status = "processed"
        /\ \A i \in LastMatched :
              payments[i].status = TableImage(LastPaymentObject.status)

\* C3 witness: a correctly signed REFUNDED event moved the pending Payment
C3_Witness ==
    /\ LastWasFirstDelivery
    /\ SecretConfigured
    /\ lastReq.req.sig = ExpectedSignature(env.SQUARE_WEBHOOK_SIGNATURE_KEY)
    /\ LastMatched = {1}
    /\ LastPaymentObject.status = REFUNDED
    /\ prevPayments[1].status = STATUS_PENDING
    /\ payments[1].status = STATUS_REFUNDED

\* C4 as stated: a first delivery that passes the signature check and whose
\* event type does not start with "payment." is answered ignored and no
\* Payment changes, whatever else the payload holds.
C4_UnknownTypeInert ==
    (LastWasFirstDelivery /\ SignatureValid(env, lastReq.req)
        /\ LastTypeIsString /\ ~LastTypePrefixed) =>
        /\ lastResp.status = "ignored"
        /\ payments = prevPayments

\* C10: every stored event row has a terminal status, and a request leaves
\* every row it found exactly as it was (no row is deleted, no status changes).
C10_EventStatusLifecycle ==
    /\ \A e \in DOMAIN events : events[e].status \in TerminalStatuses
    /\ \A e \in DOMAIN prevEvents :
          e \in DOMAIN events /\ events[e] = prevEvents[e]

\* C10 witness: an event stored as failed was delivered again with a payload
\* that a first delivery would have processed
C10_Witness ==
    /\ LastWasReplay
    /\ prevEvents[LastEventId].status = "failed"
    /\ SignatureValid(env, lastReq.req)
    /\ LastTypePrefixed
    /\ LastMatched # {}
    /\ events[LastEventId].status = "failed"

\* C5 as stated: the eight listed spellings map per the table and anything
\* else maps to pending.
C5_Original ==
    mapOut # NotCalled =>
        mapOut = IF mapIn \in MappingKeys THEN mapping(mapIn) ELSE STATUS_PENDING

\* C5 amended: every input maps to one of the four statuses: an input that is
\* one of the eight table keys up to letter case maps to that key's status,
\* and anything else (null and the empty string included) maps to pending.
C5_StatusMappingTotality ==
    mapOut # NotCalled =>
        /\ mapOut \in PaymentStatuses
        /\ mapOut = TableImage(mapIn)

\* C5 witness: a lower-case "refunded" was mapped to refunded
C5_Witness == mapIn = Lower(REFUNDED) /\ mapOut = STATUS_REFUNDED


\* ---- what the last sync() was
LastObjects == lastListing.objects
\* it ran to its commit
LastSyncCommitted ==
    lastListing.kind = "ok" /\ lastStats.outcome = "returned" /\ lastStats.errors = <<>>
\* positions of the ITEM objects that carry an id
ItemPositions(objects) ==
    {i \in 1..Len(objects) : objects[i].type = "ITEM" /\ Truthy(Get(objects[i].id))}
ItemIds(objects) == {objects[i].id : i \in ItemPositions(objects)}
\* the last ITEM object of the listing with this id
LastOccurrence(objects, id) ==
    LET at == {i \in ItemPositions(objects) : objects[i].id = id}
    IN  objects[CHOOSE i \in at : \A j \in at : j <= i]
LiveIds(items) == {k \in DOMAIN items : ~items[k].is_deleted}

\* C6 as stated: after a successful sync() the local items that are not marked
\* deleted are exactly the ITEM ids of the listing.
C6_Original ==
    LastSyncCommitted => LiveIds(catalog) = ItemIds(LastObjects)

\* C6 amended: after a successful sync() the local items that are not marked
\* deleted are exactly the ids of the listing's ITEM objects that carry an id
\* and whose (last) object in the listing is not flagged is_deleted.
C6_CatalogConvergence ==
    LastSyncCommitted =>
        LiveIds(catalog) =
            {id \in ItemIds(LastObjects) : ~LastOccurrence(LastObjects, id).is_deleted}

\* C6 witness: one sync() deactivated a stale item and created another
C6_Witness ==
    /\ LastSyncCommitted
    /\ lastStats.created = 1
    /\ lastStats.deactivated = 1
    /\ LiveIds(prevCatalog) # {}
    /\ LiveIds(catalog) # {}

\* a catalog row without its updated_at stamp
Unstamped(row) == [row EXCEPT !.updated_at = NoTime]
\* the rows a sync() found that its listing does not name
StaleIds == DOMAIN prevCatalog \ ItemIds(LastObjects)

\* C7: no sync() removes a catalog row.  After a successful sync(), a row that
\* the listing does not name and that was not deleted is now is_deleted with
\* every other column (raw_payload, version, product_id, ...) as before, and
\* deactivated counts exactly those rows; an unnamed row that was already
\* deleted is untouched.
C7_SoftDeleteOnly ==
    /\ DOMAIN prevCatalog \subseteq DOMAIN catalog
    /\ LastSyncCommitted =>
          /\ \A k \in StaleIds :
                IF prevCatalog[k].is_deleted
                THEN catalog[k] = prevCatalog[k]
                ELSE /\ catalog[k].is_deleted
                     /\ Unstamped(catalog[k]) =
                          Unstamped([prevCatalog[k] EXCEPT !.is_deleted = TRUE])
          /\ lastStats.deactivated =
                Cardinality({k \in StaleIds : ~prevCatalog[k].is_deleted})

\* C7 witness: a live item bound to a Product was missing from the listing
\* and was deactivated
C7_Witness ==
    /\ LastSyncCommitted
    /\ lastStats.deactivated = 1
    /\ \E k \in StaleIds :
          /\ ~prevCatalog[k].is_deleted
          /\ prevCatalog[k].product_id # NoProduct
          /\ catalog[k].is_deleted

\* objects of the listing that share an ITEM id are identical
NoConflictingDuplicates(objects) ==
    \A i, j \in ItemPositions(objects) :
        objects[i].id = objects[j].id => objects[i] = objects[j]

\* C8 as stated: a sync() that follows a successful sync() of the same listing
\* reports created = updated = deactivated = 0 and changes no row.
C8_Original ==
    [][(LastSyncCommitted /\ syncs' = syncs + 1 /\ lastListing' = lastListing) =>
          /\ lastStats'.created = 0
          /\ lastStats'.updated = 0
          /\ lastStats'.deactivated = 0
          /\ catalog' = catalog
          /\ products' = products]_vars

\* C8 amended: a sync() that follows a successful sync() of the same listing,
\* in which objects sharing an ITEM id are identical, reports created =
\* updated = deactivated = 0 and changes no catalog item and no Product.
C8_SyncIdempotence ==
    [][(LastSyncCommitted /\ syncs' = syncs + 1 /\ lastListing' = lastListing
          /\ NoConflictingDuplicates(LastObjects)) =>
          /\ lastStats'.outcome = "returned"
          /\ lastStats'.errors = <<>>
          /\ lastStats'.created = 0
          /\ lastStats'.updated = 0
          /\ lastStats'.deactivated = 0
          /\ catalog' = catalog
          /\ products' = products]_vars

\* C8 witness: the second of two successful syncs; the first one had created
\* or changed rows, this one found nothing to do for a non-empty listing
C8_Witness ==
    /\ syncs = 2
    /\ LastSyncCommitted
    /\ ItemIds(LastObjects) # {}
    /\ lastStats.created = 0 /\ lastStats.updated = 0 /\ lastStats.deactivated = 0
    /\ catalog = prevCatalog
    /\ \E k \in DOMAIN catalog : catalog[k].updated_at = 1

\* C9: no two Products name the same catalog item; no sync() removes or
\* changes a Product; and a catalog item that a sync() found bound is bound to
\* the same Product afterwards.
C9_ProductBindingUniqueness ==
    /\ \A p, q \in DOMAIN products :
          products[p].square_catalog_object_id = products[q].square_catalog_object_id
              => p = q
    /\ \A p \in DOMAIN prevProducts :
          p \in DOMAIN products /\ products[p] = prevProducts[p]
    /\ \A k \in DOMAIN prevCatalog :
          prevCatalog[k].product_id # NoProduct =>
              catalog[k].product_id = prevCatalog[k].product_id

\* C9 witness: a bound item was updated by a sync() and kept its Product
C9_Witness ==
    /\ LastSyncCommitted
    /\ lastStats.updated >= 1
    /\ \E k \in DOMAIN prevCatalog :
          /\ prevCatalog[k].product_id # NoProduct
          /\ catalog[k].raw_payload # prevCatalog[k].raw_payload
          /\ ~catalog[k].is_deleted
          /\ catalog[k].product_id = prevCatalog[k].product_id
          /\ Cardinality(DOMAIN products) = Cardinality(DOMAIN prevProducts)

\* ---- webhook error handling
\* the body did not yield a payload object
LastBodyUnparsed == lastReq.req.bodyKind \in BodyKinds \ {"object"}
\* the body did, but neither "event_id" nor "eventId" holds an id
LastMissingEventId == lastReq.req.bodyKind = "object" /\ ~Truthy(LastEventId)
\* what _dispatch_event did with the last payload
LastDispatch == DispatchEvent(LastPayload, prevPayments, clock)
LastHandlerRaised == lastReq.dispatched /\ LastDispatch.raised
ConfigRaises == GetSquareRuntimeConfig(env).raised

\* C11 as stated: a request whose body does not parse as structured data, or
\* whose payload has no event id under either key, is answered with a 4xx
\* status, stores no event row and changes no Payment.
C11_ClientInputErrors ==
    (LastBodyUnparsed \/ LastMissingEventId) =>
        /\ lastResp.code \in 400..499
        /\ events = prevEvents
        /\ payments = prevPayments

\* C12 as stated: when the dispatch handler raises during a first delivery, the
\* row is committed with status failed and the exception text as
\* failure_reason, and the response is the normal 202 with status failed.
C12_HandlerFailureDurable ==
    (LastWasFirstDelivery /\ LastHandlerRaised) =>
        /\ lastResp.code = 202
        /\ lastResp.status = "failed"
        /\ lastResp.failureReason = LastDispatch.reason
        /\ LastEventId \in DOMAIN events
        /\ events[LastEventId].status = "failed"
        /\ events[LastEventId].failure_reason = LastDispatch.reason

\* C18: in every stored event row processed_at is set exactly when the status
\* is processed or ignored (so never for rejected or failed), and a
\* failure_reason is present only in rejected and failed rows.
C18_ProcessedAtDiscipline ==
    \A e \in DOMAIN events :
        /\ events[e].processed_at # NoTime <=> events[e].status \in {"processed", "ignored"}
        /\ events[e].status \in {"rejected", "failed"} => events[e].processed_at = NoTime
        /\ events[e].failure_reason \notin {NULL, ""} =>
              events[e].status \in {"rejected", "failed"}

\* C18 witness: the table holds a stamped processed row next to a failed row
\* that carries a reason and no stamp
C18_Witness ==
    \E a, b \in DOMAIN events :
        /\ events[a].status = "processed"
        /\ events[a].processed_at # NoTime
        /\ events[a].failure_reason = NULL
        /\ events[b].status = "failed"
        /\ events[b].processed_at = NoTime
        /\ events[b].failure_reason = NoneTypeGet

LastFetchFailed ==
    /\ syncs > 0
    /\ ConfigRaises \/ lastListing.kind \in {"error", "raise"}

\* C13 as stated: when obtaining the client or the listing call fails, sync()
\* returns all-zero statistics with a non-empty errors list, and no catalog
\* item or Product is created or changed.
C13_FetchFailureAborts ==
    LastFetchFailed =>
        /\ lastStats.outcome = "returned"
        /\ lastStats.processed = 0
        /\ lastStats.created = 0
        /\ lastStats.updated = 0
        /\ lastStats.deactivated = 0
        /\ lastStats.errors # <<>>
        /\ catalog = prevCatalog
        /\ products = prevProducts

\* a tracked field of the row differs from what the object holds
TrackedDiffers(row, obj) ==
    LET x == Extract(obj)
    IN  \/ row.variation_id # x.variation_id
        \/ row.name # x.name
        \/ row.description # x.description
        \/ row.price_cents # x.price_cents
        \/ row.currency # x.currency
        \/ (obj.version # NullInt /\ row.version # obj.version)
        \/ row.is_deleted # obj.is_deleted
        \/ row.raw_payload # obj
\* ids of the listing that had a row before the sync()
KnownIds(objects) == ItemIds(objects) \cap DOMAIN prevCatalog
\* the ITEM objects before position i that carry the same id
EarlierSame(objects, i) ==
    {j \in ItemPositions(objects) : j < i /\ objects[j].id = objects[i].id}
\* object i differs from the row of its id as the objects before it left it
ChangesRow(objects, i) ==
    IF EarlierSame(objects, i) = {}
    THEN TrackedDiffers(prevCatalog[objects[i].id], objects[i])
    ELSE objects[i] # objects[CHOOSE j \in EarlierSame(objects, i) :
                                 \A k \in EarlierSame(objects, i) : k <= j]

\* C17 as stated: on the success path processed is the number of distinct ITEM
\* ids of the listing, created the number of those without a row before the
\* call, and updated the number of those whose row differed in a tracked field.
C17_Original ==
    LastSyncCommitted =>
        /\ lastStats.processed = Cardinality(ItemIds(LastObjects))
        /\ lastStats.created = Cardinality(ItemIds(LastObjects) \ DOMAIN prevCatalog)
        /\ lastStats.updated =
              Cardinality({id \in KnownIds(LastObjects) :
                  \E i \in ItemPositions(LastObjects) :
                      /\ LastObjects[i].id = id
                      /\ TrackedDiffers(prevCatalog[id], LastObjects[i])})

\* C17 amended: on the success path processed is the number of distinct ITEM
\* ids of the listing and created the number of those without a row before
\* the call; updated is the number of ITEM objects of the listing that name an
\* existing row and differ in a tracked field from that row as the objects
\* before them left it (one per id unless an id is listed twice with
\* different content).  One new ITEM with one variation priced 500 USD on an
\* empty store gives created=1, updated=0, deactivated=0, processed=1 and a row
\* with price_cents=500, currency=USD, is_deleted=false.
C17_SyncStatistics ==
    LastSyncCommitted =>
        /\ lastStats.processed = Cardinality(ItemIds(LastObjects))
        /\ lastStats.created = Cardinality(ItemIds(LastObjects) \ DOMAIN prevCatalog)
        /\ lastStats.updated =
              Cardinality({i \in ItemPositions(LastObjects) :
                  LastObjects[i].id \in DOMAIN prevCatalog /\ ChangesRow(LastObjects, i)})
        /\ NoConflictingDuplicates(LastObjects) =>
              lastStats.updated =
                  Cardinality({id \in KnownIds(LastObjects) :
                      TrackedDiffers(prevCatalog[id], LastOccurrence(LastObjects, id))})
        /\ (prevCatalog = <<>> /\ LastObjects = SeedListing) =>
              /\ lastStats = Stats("returned", 1, 1, 0, 0, <<>>)
              /\ DOMAIN catalog = {ITM1}
              /\ catalog[ITM1].price_cents = 500
              /\ catalog[ITM1].currency = "USD"
              /\ ~catalog[ITM1].is_deleted

\* C17 witness: a sync() that created one item and updated another
C17_Witness ==
    /\ LastSyncCommitted
    /\ lastStats.processed = 2
    /\ lastStats.created = 1
    /\ lastStats.updated = 1
    /\ lastStats.deactivated = 0

\* ---- the signature verifier
VerifySecret == env.SQUARE_WEBHOOK_SIGNATURE_KEY
VerifyExpected == Mac(VerifySecret, verIn.url \o verIn.raw_body)

LostRace(s) ==
    rSess[s].pc = "done" /\ rSess[s].passed /\ rSess[s].uniqueViolation
\* requests whose commit made a Payment change visible, per event id
MutatorsOf(event_id) ==
    {s \in RaceSlots : rSess[s].committed /\ rSess[s].event_id = event_id
                       /\ rSess[s].write.id # 0}
RaceHistory(i) == rPayments[i].extra_data.webhook_history

\* C14 as stated: of two requests with the same event id that both passed the
\* existence check, the one whose insert loses is answered as a duplicate:
\* 202, duplicate=true and the stored status.
C14_ConcurrentDuplicate ==
    \A s \in RaceSlots :
        LostRace(s) =>
            /\ rSess[s].resp.code = 202
            /\ rSess[s].resp.duplicate
            /\ \E i \in ExistingEvents(rEvents, rSess[s].event_id) :
                  rSess[s].resp.status = rEvents[i].record.status

\* C15: in every interleaving the committed table holds at most one row per
\* event id, at most one request per event id has made a Payment change
\* visible, and no Payment history holds two entries of the same event id.
C15_AtMostOnce ==
    /\ \A i, j \in 1..Len(rEvents) :
          rEvents[i].event_id = rEvents[j].event_id => i = j
    /\ \A s, t \in RaceSlots :
          (rSess[s].event_id = rSess[t].event_id
              /\ s \in MutatorsOf(rSess[s].event_id)
              /\ t \in MutatorsOf(rSess[t].event_id)) => s = t
    /\ \A i \in DOMAIN rPayments : \A a, b \in 1..Len(RaceHistory(i)) :
          rSess[RaceHistory(i)[a].received_at].event_id
            = rSess[RaceHistory(i)[b].received_at].event_id => a = b

\* C15 witness: two payment deliveries of one event id both passed the
\* existence check; one was committed and changed the Payment, the other lost
C15_Witness ==
    \E s, t \in RaceSlots :
        /\ s # t
        /\ rSess[s].event_id = rSess[t].event_id
        /\ rSess[s].passed /\ rSess[t].passed
        /\ s \in MutatorsOf(rSess[s].event_id)
        /\ LostRace(t)
        /\ ReachesSelect(rSess[t].req.payload)
        /\ rSess[t].record.signature_verified
        /\ Len(RaceHistory(1)) = 1

\* every visible Payment change has its event row: a history entry was
\* written by a request whose processed row is in the table, and a Payment
\* that differs from its initial value has a history entry
C20_Visible ==
    \A i \in DOMAIN rPayments :
        /\ rPayments[i] # InitPayments[i] => Len(RaceHistory(i)) > 0
        /\ \A k \in 1..Len(RaceHistory(i)) :
              LET s == RaceHistory(i)[k].received_at
              IN  \E r \in ExistingEvents(rEvents, rSess[s].event_id) :
                      /\ rEvents[r].record.status = "processed"
                      /\ rEvents[r].record.processed_at = s
\* a commit step: it fails and changes neither table, or it succeeds and adds
\* the event row together with the session's Payment change
C20_Commit ==
    \A s \in RaceSlots :
        (rSess[s].pc = "dispatched" /\ rSess'[s].pc = "done") =>
            IF rSess'[s].resp.code = 202
            THEN /\ rEvents' = Append(rEvents, EventRow(rSess[s].event_id, rSess[s].record))
                 /\ rSess[s].write.id # 0 =>
                       /\ rPayments'[rSess[s].write.id].extra_data
                            = rSess[s].write.new.extra_data
                       /\ rPayments[rSess[s].write.id].extra_data
                            # rSess[s].write.new.extra_data
            ELSE rEvents' = rEvents /\ rPayments' = rPayments

\* C20: the event row and the Payment change of its handler become visible in
\* one commit; no committed state holds a Payment change of an event whose row
\* is absent, and a failed commit leaves neither the row nor the change.
C20_WebhookAtomicity == [](C20_Visible) /\ [][C20_Commit]_vars

\* C20 witness: a request had inserted its row and changed the Payment in its
\* session when the commit failed; the tables show neither
C20_Witness ==
    \E s \in RaceSlots :
        /\ rSess[s].pc = "done"
        /\ rSess[s].inserted
        /\ rSess[s].write.id # 0
        /\ rSess[s].resp = ErrorResp(500, OPERATIONAL_ERROR)
        /\ rEvents = <<>>
        /\ rPayments = InitPayments

\* ------------------------------------------------------------------- C21
\* the ITEM objects of the listing that name this id and carry a version
VersionedAt(objects, id) ==
    {i \in ItemPositions(objects) : objects[i].id = id /\ objects[i].version # NullInt}
\* the version sync() leaves on the row of a listed id: that of the last listed
\* object carrying one; without any, the row's own version, 0 for a new row
ListedVersion(objects, id) ==
    LET at == VersionedAt(objects, id)
    IN  IF at # {}
        THEN objects[CHOOSE i \in at : \A j \in at : j <= i].version
        ELSE IF id \in DOMAIN prevCatalog THEN prevCatalog[id].version
        ELSE 0

\* C21 as stated: across sync() calls the version stored on a catalog item
\* never decreases.
C21_Original ==
    \A k \in DOMAIN prevCatalog :
        k \in DOMAIN catalog /\ catalog[k].version >= prevCatalog[k].version

\* C21 amended: after a sync() that ran to its commit the version of every
\* listed item is the version of the last listed object for its id that
\* carries one (whether higher or lower than before), the row's previous
\* version when no listed object carries one, and 0 for a row created from an
\* object without a version; rows that are not listed, deactivated ones
\* included, keep their version, and a sync() that does not commit changes no
\* version.
C21_VersionFromRemote ==
    /\ DOMAIN prevCatalog \subseteq DOMAIN catalog
    /\ \A k \in DOMAIN catalog :
           catalog[k].version =
               IF LastSyncCommitted /\ k \in ItemIds(LastObjects)
               THEN ListedVersion(LastObjects, k)
               ELSE prevCatalog[k].version

\* C21 witness: a committed sync() raised the version of a stored item to the
\* version its listing carries
C21_Witness ==
    /\ LastSyncCommitted
    /\ \E k \in DOMAIN prevCatalog \cap ItemIds(LastObjects) :
           /\ VersionedAt(LastObjects, k) # {}
           /\ catalog[k].version > prevCatalog[k].version

\* ------------------------------------------------------------------- C22
\* the last sync() was left by an exception
LastSyncRaised == lastStats.outcome = "raised"
\* the listing made the pass flush a Product: its first object is a live ITEM
\* with an id that had no local row
LastFlushedProduct ==
    /\ lastListing.kind = "ok"
    /\ LastObjects # <<>>
    /\ 1 \in ItemPositions(LastObjects)
    /\ ~LastObjects[1].is_deleted
    /\ LastObjects[1].id \notin DOMAIN prevCatalog

\* C22: a sync() pass that reaches its commit makes its creates, updates,
\* bindings and deactivations visible together (every listed id has its row
\* with the listed payload, the rows beyond the previous ones are the created
\* ones, every stale row is marked, every bound Product is in the table); a
\* pass left by an exception, and one that returns errors, leaves the catalog
\* items and the Products exactly as they were, Products flushed for binding
\* included.
C22_SyncAtomicity ==
    /\ ~LastSyncCommitted => catalog = prevCatalog /\ products = prevProducts
    /\ LastSyncCommitted =>
           /\ \A id \in ItemIds(LastObjects) :
                  /\ id \in DOMAIN catalog
                  /\ catalog[id].raw_payload = LastOccurrence(LastObjects, id)
           /\ DOMAIN catalog = DOMAIN prevCatalog \cup ItemIds(LastObjects)
           /\ Cardinality(DOMAIN catalog \ DOMAIN prevCatalog) = lastStats.created
           /\ \A id \in StaleIds : catalog[id].is_deleted
           /\ \A id \in DOMAIN catalog :
                  catalog[id].product_id # NoProduct =>
                      catalog[id].product_id \in DOMAIN products

\* C22 witness: a pass flushed a Product for a new item and was then left by
\* an exception
C22_Witness ==
    /\ LastSyncRaised
    /\ LastFlushedProduct

\* ------------------------------------------------------------------- C23
\* the last delivery reached _apply_payment_update: it was dispatched, its
\* type starts with "payment." and neither data nor data.object is null
LastReachedPaymentHandler ==
    /\ LastWasFirstDelivery
    /\ lastReq.dispatched
    /\ LastTypePrefixed
    /\ LastPayload.data.kind # "null"
    /\ LastPayload.data.object.kind # "null"
\* its payment sub-payload has no id, or an id no local Payment carries
LastUnmatched ==
    \/ ~Truthy(Get(LastPaymentObject.id))
    \/ \A i \in DOMAIN prevPayments :
           prevPayments[i].square_payment_id # LastPaymentObject.id

\* C23: a "payment." event whose payment sub-payload has no id, or an id that
\* is no local Payment's square_payment_id, is answered ignored, stored as
\* ignored and changes no Payment; and no delivery at all adds or removes a
\* Payment row or changes a row's square_payment_id or amount.
C23_UnmatchedIgnored ==
    /\ (LastReachedPaymentHandler /\ LastUnmatched) =>
           /\ lastResp.code = 202
           /\ lastResp.status = "ignored"
           /\ events[LastEventId].status = "ignored"
           /\ payments = prevPayments
    /\ DOMAIN payments = DOMAIN prevPayments
    /\ \A i \in DOMAIN payments :
           /\ payments[i].square_payment_id = prevPayments[i].square_payment_id
           /\ payments[i].amount = prevPayments[i].amount

\* C23 witness: a payment event naming a Square payment id that no local
\* Payment carries was answered ignored
C23_Witness ==
    /\ LastReachedPaymentHandler
    /\ LastPaymentObject.id = PAYX
    /\ lastResp.status = "ignored"
    /\ payments = prevPayments

\* ------------------------------------------------------------------- C25
\* the committed event rows stored as processed whose payment sub-payload
\* names this Payment
ProcessedFor(i) ==
    {r \in 1..Len(rEvents) :
        /\ rEvents[r].record.status = "processed"
        /\ PaymentPayloadOf(rEvents[r].record.payload.data.object).id
             = rPayments[i].square_payment_id}

\* C25 as stated: after any set of distinct processed events for one Payment,
\* concurrent ones included, its webhook_history holds one entry per processed
\* event.
C25_HistoryComplete ==
    \A i \in DOMAIN rPayments :
        Len(RaceHistory(i)) = Cardinality(ProcessedFor(i))

\* ------------------------------------------------------------------- C24
\* the last step was a create_payment call whose Square call returned success
LastCreateSucceeded ==
    /\ lastCreate.called
    /\ lastCreate.amount_cents > 0
    /\ ~GetSquareRuntimeConfig(env).raised
    /\ lastCreate.remote.kind = "success"
\* the rows of the Square payment that call charged
LastCreateRows ==
    {i \in DOMAIN payments :
        payments[i].square_payment_id = lastCreate.remote.payment.id}

\* C24: create_payment writes a Payment only after the Square call returned
\* success: a call that is not made (bad amount, configuration error), raises
\* (timeout: 504), or is rejected (502 or 400) leaves the payments table as it
\* was and is answered with an error; after a success the answer is 201 with
\* the Square payment id and status whether or not the local write worked,
\* the write stores exactly one row for that Square payment with the amount
\* and the mapped status and changes no other row, and a failed write leaves
\* the table as it was.
C24_CreateOrdering ==
    lastCreate.called =>
        IF LastCreateSucceeded
        THEN /\ lastCreate.resp = CreateResp(201, lastCreate.remote.payment.id,
                                             lastCreate.remote.payment.status)
             /\ ~lastCreate.db_ok => payments = prevPayments
             /\ lastCreate.db_ok =>
                   /\ Cardinality(LastCreateRows) = 1
                   /\ \A i \in LastCreateRows :
                         /\ payments[i].amount = lastCreate.amount_cents
                         /\ payments[i].status
                              = TableImage(lastCreate.remote.payment.status)
                         /\ payments[i].extra_data.square_response
                              = lastCreate.remote.payment
                   /\ \A i \in DOMAIN prevPayments \ LastCreateRows :
                         payments[i] = prevPayments[i]
                   /\ DOMAIN payments = DOMAIN prevPayments \cup LastCreateRows
        ELSE /\ payments = prevPayments
             /\ lastCreate.resp.code \in {400, 500, 502, 504}
             /\ (lastCreate.amount_cents > 0 /\ ~GetSquareRuntimeConfig(env).raised
                   /\ lastCreate.remote.kind = "timeout") => lastCreate.resp.code = 504

\* C24 witness: Square charged the card, the local write failed and the caller
\* was answered 201 with the Square payment id
C24_Witness ==
    /\ LastCreateSucceeded
    /\ ~lastCreate.db_ok
    /\ lastCreate.resp.code = 201
    /\ lastCreate.resp.square_payment_id = PAYX
    /\ payments = prevPayments

\* ------------------------------------------------------------------- C26
\* what a first delivery of the last request would do on the tables it found
LastWouldProcess ==
    /\ SignatureValid(env, lastReq.req)
    /\ LastTypePrefixed
    /\ LastMatched # {}

\* C26: a delivery of an id that is already stored, whatever status it is
\* stored with, whatever its signature and whatever the payments table now
\* holds, is not dispatched, is answered as a duplicate with the stored status
\* and leaves every event row and every Payment as it was; a create_payment
\* call leaves every event row as it was.
C26_TerminalSticky ==
    /\ LastWasReplay =>
           /\ prevEvents[LastEventId].status \in TerminalStatuses
           /\ ~lastReq.dispatched
           /\ lastResp = DuplicateResp(prevEvents[LastEventId].status)
           /\ events = prevEvents
           /\ payments = prevPayments
    /\ lastCreate.called => events = prevEvents

\* C26 witness: an id stored as ignored because no Payment carried its Square
\* payment id was delivered again, correctly signed, after create_payment had
\* recorded that Payment: it stayed ignored and the Payment was not touched
C26_Witness ==
    /\ LastWasReplay
    /\ prevEvents[LastEventId].status = "ignored"
    /\ LastWouldProcess
    /\ events[LastEventId].status = "ignored"
    /\ payments = prevPayments
    /\ \E i \in LastMatched : payments[i].extra_data.webhook_history = <<>>

\* ------------------------------------------------------------------- C27
\* the last delivery ended as failed: answered so, and stored so
LastEndedFailed ==
    /\ LastWasFirstDelivery
    /\ lastResp.code = 202
    /\ lastResp.status = "failed"
    /\ LastEventId \in DOMAIN events
    /\ events[LastEventId].status = "failed"

\* C27: a delivery ends with status failed only because its handler raised,
\* and whenever a delivery is answered or stored as failed every Payment has
\* the status and the extra_data it had before that delivery.
C27_FailedLeavesPayments ==
    /\ LastEndedFailed => LastHandlerRaised
    /\ (lastResp.status = "failed" \/ LastEndedFailed) =>
           /\ DOMAIN payments = DOMAIN prevPayments
           /\ \A i \in DOMAIN prevPayments :
                 /\ payments[i].status = prevPayments[i].status
                 /\ payments[i].extra_data = prevPayments[i].extra_data

\* C27 witness: a payment event whose data.object is null made the handler
\* raise on the way to the Payment update; it was stored as failed while a
\* pending Payment existed
C27_Witness ==
    /\ LastEndedFailed
    /\ LastTypePrefixed
    /\ LastPayload.data.kind = "dict"
    /\ LastPayload.data.object.kind = "null"
    /\ \E i \in DOMAIN payments : payments[i].status = STATUS_PENDING

\* ------------------------------------------------------------------- C28
\* the stored events that were processed for this Payment, and the one among
\* them that was processed last
ProcessedEventsOf(i) ==
    {k \in DOMAIN events :
        /\ events[k].status = "processed"
        /\ PaymentPayloadOf(events[k].payload.data.object).id
             = payments[i].square_payment_id}
LastProcessedOf(i) ==
    CHOOSE k \in ProcessedEventsOf(i) :
        \A j \in ProcessedEventsOf(i) : events[j].processed_at <= events[k].processed_at

\* C28: after any sequential series of deliveries the status of a Payment is
\* the table image of the provider status carried by the most recent delivery
\* that was processed for it, whatever its status was before; a Payment no
\* processed delivery named still has its initial status.
C28_LastProcessedWins ==
    \A i \in DOMAIN payments :
        payments[i].status =
            IF ProcessedEventsOf(i) = {}
            THEN InitPayments[i].status
            ELSE TableImage(
                    PaymentPayloadOf(events[LastProcessedOf(i)].payload.data.object).status)

\* C28 witness: a Payment that an earlier event had completed or refunded was
\* set back to pending by a later processed event
C28_Witness ==
    /\ lastResp.status = "processed"
    /\ \E i \in LastMatched :
          /\ Cardinality(ProcessedEventsOf(i)) = 2
          /\ prevPayments[i].status \in {STATUS_COMPLETED, STATUS_REFUNDED}
          /\ payments[i].status = STATUS_PENDING

\* ------------------------------------------------------------------- C29
\* C29: starting from an empty store (or what one sync() made of it), after
\* any sequence of sync() calls every catalog item that is not marked deleted
\* has a product binding, the bound Product exists and its
\* square_catalog_object_id is the item's Square id.
C29_BoundIfActive ==
    \A k \in DOMAIN catalog :
        ~catalog[k].is_deleted =>
            /\ catalog[k].product_id # NoProduct
            /\ catalog[k].product_id \in DOMAIN products
            /\ products[catalog[k].product_id].square_catalog_object_id = k

\* C29 witness: an item that was created as deleted, and so without a Product,
\* came back live in a later listing and was bound by the update
C29_Witness ==
    /\ LastSyncCommitted
    /\ \E k \in DOMAIN prevCatalog :
          /\ prevCatalog[k].is_deleted
          /\ prevCatalog[k].product_id = NoProduct
          /\ ~catalog[k].is_deleted
          /\ catalog[k].product_id \in DOMAIN products
          /\ products[catalog[k].product_id].square_catalog_object_id = k

\* ---------------------------------------------------------------- C30
\* C30: sync() passes that overlap never leave two rows for one Square
\* object: the committed square_catalog_items hold at most one row per
\* square_id and the committed products at most one row per
\* square_catalog_object_id, and a pass that raises, on a unique-constraint
\* collision or otherwise, commits nothing.
C30_Unique ==
    /\ \A i, j \in 1..Len(sCatalog) :
           sCatalog[i].square_id = sCatalog[j].square_id => i = j
    /\ \A p, q \in DOMAIN sProducts :
           sProducts[p].square_catalog_object_id = sProducts[q].square_catalog_object_id
               => p = q
C30_Abort ==
    \A s \in SyncSlots :
        sPass[s].outcome # "raised" /\ sPass'[s].outcome = "raised"
            => sCatalog' = sCatalog /\ sProducts' = sProducts
C30_NoDuplicates == [](C30_Unique) /\ [][C30_Abort]_vars
\* two passes had loaded the same rows before either committed; one committed
\* a new item and the other raised
C30_Witness ==
    \E s, t \in SyncSlots :
        /\ s # t
        /\ sPass[s].outcome = "returned" /\ sPass[s].newItems # <<>>
        /\ sPass[t].outcome = "raised" /\ sPass[t].objects = sPass[s].objects
        /\ sPass[t].items0 = sPass[s].items0

====
